---- MODULE Spec2Model ----
(***************************************************************************)
(* Model of the Taiga MCP gateway (src/app.py, src/taiga_client.py).       *)
(*                                                                         *)
(* Several state machines share the module:                               *)
(*   Spec        concurrent taiga_tasks_create requests over the shared    *)
(*               _IdempotencyStore (lock, entries, clock), next to the     *)
(*               POST /actions/create_task handler on the same remote;     *)
(*   SpecUpdate  one taiga_stories_update / taiga_tasks_update call at a   *)
(*               time against the remote API;                              *)
(*   SpecAction  the HTTP update actions; further specifications cover     *)
(*               the other tools and the store on its own.                 *)
(*                                                                         *)
(* Python values are tagged tuples: UNSET, None, <<"int", n>>,             *)
(* <<"str", s>>, <<"list", q>>, <<"dict", d>>.  A dict (record, payload)   *)
(* is a function from field names to such values.  Every await of a remote *)
(* call is a state of its own (the call is in flight), the authenticate    *)
(* and close of get_taiga_client included, so other requests interleave    *)
(* exactly where the event loop may switch tasks.                          *)
(***************************************************************************)
EXTENDS Integers, Sequences, FiniteSets, TLC

\* ------------------------------------------------------------------ bounds

\* last value of the wall clock (time.time()) the model explores
MaxTime == 3
\* ttl_seconds handed to _IdempotencyStore.__init__ (the parameter, scaled down)
TtlSeconds == 2

\* ------------------------------------------------------------------ values

UNSET == <<"unset">>
None == <<"none">>
IntV(n) == <<"int", n>>
StrV(s) == <<"str", s>>
ListV(q) == <<"list", q>>
DictV(d) == <<"dict", d>>

IsInt(v) == v[1] = "int"
IsStr(v) == v[1] = "str"

\* str(value), as f-strings and str() format None and integers; a string stays itself
PyStr(v) == IF v = None THEN "None" ELSE ToString(v[2])
Str(v) == IF IsStr(v) THEN v ELSE StrV(PyStr(v))

\* Python truthiness of an optional string argument
Truthy(v) == IsStr(v) /\ v[2] # ""

EmptyDict == [k \in {} |-> None]
Put(d, k, v) == [x \in (DOMAIN d) \cup {k} |-> IF x = k THEN v ELSE d[x]]
\* dict.update(other)
Update(d, other) ==
    [x \in (DOMAIN d) \cup (DOMAIN other) |-> IF x \in DOMAIN other THEN other[x] ELSE d[x]]
\* dict.get(key): None when the key is missing
Get(d, k) == IF k \in DOMAIN d THEN d[k] ELSE None

\* outcomes of a handler
NoResult == <<"pending">>
Return(v) == <<"return", v>>
Raise(type, status, msg) == <<"raise", type, status, msg>>
Returned(res) == res[1] = "return"
Raised(res) == res[1] = "raise"

\* ------------------------------------------------------------------ remote API (collaborator)

\* HTTP statuses the remote API answers a failed call with
FailStatuses == {404, 409}
\* the same for the calls of taiga_tasks_create, which treats every status alike
CreateFailStatuses == {404}

\* the project a fetched story / task belongs to: an id, or missing
RemoteProjects == {IntV(3), None}

\* list_task_statuses / list_user_story_statuses answer of project 3
TaskStatuses ==
    << [id |-> IntV(20), name |-> StrV("New"), slug |-> StrV("new")],
       [id |-> IntV(21), name |-> StrV("Doing"), slug |-> StrV("doing")] >>
StoryStatuses ==
    << [id |-> IntV(10), name |-> StrV("New"), slug |-> StrV("new")],
       [id |-> IntV(11), name |-> StrV("In Progress"), slug |-> StrV("in-progress")] >>

\* the listings the update tools and taiga_stories_create may be answered with: the
\* one above, and one in which several entries match a name
StoryListings ==
    { StoryStatuses,
      << [id |-> IntV(12), name |-> StrV("in-progress"), slug |-> StrV("ip")],
         [id |-> IntV(11), name |-> StrV("In Progress"), slug |-> StrV("in-progress")],
         [id |-> IntV(13), name |-> StrV("In Progress"), slug |-> StrV("dup")] >> }
TaskListings ==
    { TaskStatuses,
      << [id |-> IntV(22), name |-> StrV("doing"), slug |-> StrV("d")],
         [id |-> IntV(21), name |-> StrV("Doing"), slug |-> StrV("doing")],
         [id |-> IntV(23), name |-> StrV("x"), slug |-> StrV("doing")] >> }

\* first id the remote API gives a created task
FirstTaskId == 100

\* first ref the remote API gives a created task
FirstRef == 50
\* the timestamp the remote API stamps a created task with
CreatedDate == "2025-10-01T12:00:00Z"

\* dict.setdefault(key, value): a key already there keeps its value
SetDefault(d, k, v) == IF k \in DOMAIN d THEN d ELSE Put(d, k, v)

\* the record the remote create_task answers with as its n-th task: the payload, and
\* id, ref, created_date, modified_date and version where the payload has none
CreatedRecord(payload, n) ==
    LET r1 == SetDefault(payload, "id", IntV(FirstTaskId + n))
        r2 == SetDefault(r1, "ref", IntV(FirstRef + n))
        r3 == SetDefault(r2, "created_date", StrV(CreatedDate))
        r4 == SetDefault(r3, "modified_date", StrV(CreatedDate))
    IN  SetDefault(r4, "version", IntV(1))

\* the text of an error response of the remote API
ResponseText == ""

\* the remote API answered a call with an error status: _request raises TaigaAPIError
RemoteError(s) ==
    Raise("TaigaAPIError", s,
          "Taiga API request failed with status " \o ToString(s) \o ": " \o ResponseText)

\* POST /auth was answered with an error status: authenticate raises TaigaAPIError
AuthError(s) ==
    Raise("TaigaAPIError", s,
          "Taiga authentication failed with status " \o ToString(s) \o ": " \o ResponseText)

\* ------------------------------------------------------------------ helpers of app.py

\* hashlib.sha256(text).hexdigest(), tabulated for the texts the model forms
Sha256Hex(text) ==
    CASE text = "5:x" -> "490ec08eb68ff28e7f9c989869b5109f1f17a32f2859c38515c04956ac84b10c"
      [] text = "5:1x" -> "1ddb3c4f712e4397e036027fb4fa2a247f7d128c3384bdec3c1f885c9a0faae8"
      [] text = "51:x" -> "7623b289a07dff96e1171fbf280a0da1bc8c3064012bf72d9812a29b5b91cefb"
      [] text = "51:1x" -> "eb880f5342659b32b0d88750ada5d383f938dba10dd7308e8ec8273f31241690"
      [] text = "5x" -> "ff6a421c6ea3b401f7b74fd92785d09e2b3c480fdf4dc860d47d8fdfe0591ca4"
      [] text = "51x" -> "137ca5964224bf9fe70653b02627dfc48842fe4994356d9ffbf2b19b38cc3b52"
      [] text = "5:" -> "ec64151619b30f1aad702367b2a23dc78fef228335aa7599c62cb61088f5dfee"
      [] text = "51:" -> "a5d9c043da2358860f6745130d6391e94270dad1eb3e69038e25748f43b7408e"

\* a fingerprint that leaves the subject out, as a slip in the key derivation would
KeyWithoutSubject(raw_key, user_story_id, subject) ==
    raw_key \o ":" \o Sha256Hex(ToString(user_story_id) \o ":")

\* f"{raw_key}:{sha256(f'{user_story_id}:{subject}')}"
MakeIdempotencyCacheKey(raw_key, user_story_id, subject) ==
    raw_key \o ":" \o Sha256Hex(ToString(user_story_id) \o ":" \o subject)

\* datetime.date.fromisoformat(value).isoformat() on the dates the model uses
\* (Python 3.11: the basic format is accepted and comes back extended)
IsoDates == [x \in {"2025-11-21", "20251121"} |-> "2025-11-21"]

\* _validate_due_date: None passes, a calendar date is normalised, else ValueError
ValidateDueDate(value) ==
    IF value = None THEN Return(None)
    ELSE IF value[2] \in DOMAIN IsoDates THEN Return(StrV(IsoDates[value[2]]))
    ELSE Raise("ValueError", 0, "due_date must be in YYYY-MM-DD format")

\* a resolver that asks for the listing whatever the status is
ResolveAlwaysListing(status) == NoResult

\* _resolve_*_status_id up to its await: None and an integer are returned as they are,
\* for anything else the listing has to be fetched
ResolveWithoutListing(status) ==
    IF status = None \/ IsInt(status) THEN Return(status) ELSE NoResult

\* a scan that keeps the last matching entry instead of the first
RECURSIVE LastMatch(_, _, _)
LastMatch(statuses, status, i) ==
    IF i > Len(statuses) THEN 0
    ELSE LET later == LastMatch(statuses, status, i + 1) IN
         IF later # 0 THEN later
         ELSE IF statuses[i].name = status \/ statuses[i].slug = status THEN i
         ELSE 0

\* index of the first entry whose name or slug equals the status, 0 if none
RECURSIVE FirstMatch(_, _, _)
FirstMatch(statuses, status, i) ==
    IF i > Len(statuses) THEN 0
    ELSE IF statuses[i].name = status \/ statuses[i].slug = status THEN i
    ELSE FirstMatch(statuses, status, i + 1)

\* the scan of _resolve_task_status_id / _resolve_user_story_status_id over a listing
ResolveInListing(statuses, status, label, project_id) ==
    LET i == FirstMatch(statuses, status, 1) IN
    IF i # 0 THEN Return(statuses[i].id)
    ELSE Raise("TaigaAPIError", 0,
               label \o " '" \o Str(status)[2] \o "' not found for project "
               \o ToString(project_id))

\* int(value) as the handlers use it on project / version
CanInt(v) == IsInt(v)
IntOf(v) == v[2]

\* ------------------------------------------------------------------ state

VARIABLES
    now,            \* the last value time.time() returned
    lock,           \* _IdempotencyStore._lock: NoHolder or the request holding it
    entries,        \* _IdempotencyStore._entries: cache key -> <<expires_at, value>>
    last_store,     \* history: cache key -> what the last completed store(key, ..) wrote
    created_tasks,  \* remote API: the payloads create_task received, in order
    pc,             \* per request: where its coroutine is suspended
    args,           \* per request: the arguments of the call
    local,          \* per request: project_id, cache_key, payload (locals of the handler)
    result,         \* per request: what the call returned or raised
    trace,          \* per request: the calls it made on the client and the store, in order
    hist,           \* per request: which calls had ended when it began, what its get saw
    upd,            \* the update call: position, arguments, locals, outcome, remote calls
    act,            \* the HTTP update action: request, position, locals, calls, response
    call,           \* a call of another tool: arguments, position, remote calls, outcome
    mem,            \* the dict objects of a caller of the store: heap, what it holds
    leaving         \* per request: the outcome it holds while its client is being closed

vars == <<now, lock, entries, last_store, created_tasks, pc, args, local, result, trace, hist,
          upd, act, call, mem, leaving>>

\* the calls the idempotency claims speak of: two that come in sequence or overlap, and
\* a third for the histories in which a retry follows an earlier call and a failed one
Requests == {1, 2, 3}
\* the calls that may overlap
Pair == {1, 2}
NoHolder == 0

\* ------------------------------------------------------------------ _IdempotencyStore

\* the test of _purge_expired with the comparison slipped to strict
ExpiredStrict(expires_at, t) == expires_at < t

\* the test of _purge_expired: expires_at <= now
Expired(expires_at, t) == expires_at <= t

\* a purge that also drops entries expiring within the next second
PurgeEager(e, t) == [k \in {x \in DOMAIN e : ~Expired(e[x][1], t + 1)} |-> e[k]]

\* _purge_expired: drop every entry whose expires_at has passed
PurgeExpired(e, t) == [k \in {x \in DOMAIN e : ~Expired(e[x][1], t)} |-> e[k]]

\* a get that, on a miss, reserves the key with an empty record
StoreGetBodyReserving(e, key, t) ==
    LET purged == PurgeExpired(e, t) IN
    IF key \in DOMAIN purged THEN <<purged, DictV(purged[key][2])>>
    ELSE <<Put(purged, key, <<t + TtlSeconds, EmptyDict>>), None>>

\* the body of get under the lock: <<entries after the purge, dict(value) or None>>
StoreGetBody(e, key, t) ==
    LET purged == PurgeExpired(e, t) IN
    <<purged, IF key \in DOMAIN purged THEN DictV(purged[key][2]) ELSE None>>

\* a store that writes its entry without purging first
StoreStoreBodyNoPurge(e, key, value, t, t2) ==
    [x \in (DOMAIN e) \cup {key} |-> IF x = key THEN <<t2 + TtlSeconds, value>> ELSE e[x]]

\* the body of store under the lock: purge at t, then time.time() is read again (t2)
StoreStoreBody(e, key, value, t, t2) ==
    LET purged == PurgeExpired(e, t) IN
    [x \in (DOMAIN purged) \cup {key} |->
        IF x = key THEN <<t2 + TtlSeconds, value>> ELSE purged[x]]

\* what time.time() may return next: the clock never runs backwards
ClockReadings == now..MaxTime

\* leaving `async with self._lock` without releasing it
LockKept(holder) == holder

\* leaving `async with self._lock`: the lock is released
LockReleased(holder) == NoHolder

\* ------------------------------------------------------------------ taiga_tasks_create

\* the user story and subject of a call: pairs whose concatenations coincide
Targets == { <<5, "x">>, <<5, "1x">>, <<51, "x">> }
\* what a caller that sends no key may pass for idempotency_key
NoKeys == {UNSET, None, StrV("")}

\* the optional fields of a call, varied together to keep the state space small
CreateOptionals ==
    { [description |-> UNSET, assigned_to |-> UNSET, status |-> UNSET,
       tags |-> UNSET, due_date |-> UNSET],
      [description |-> StrV("d"), assigned_to |-> UNSET, status |-> StrV("Doing"),
       tags |-> UNSET, due_date |-> StrV("2025-11-21")],
      [description |-> None, assigned_to |-> IntV(90), status |-> StrV("nope"),
       tags |-> None, due_date |-> StrV("20251121")],
      [description |-> UNSET, assigned_to |-> None, status |-> IntV(21),
       tags |-> ListV(<<"t">>), due_date |-> StrV("21-11-2025")] }

\* the arguments of a call
CallArgs(t, k, o) ==
    [user_story_id |-> t[1], subject |-> t[2], idempotency_key |-> k,
     description |-> o.description, assigned_to |-> o.assigned_to, status |-> o.status,
     tags |-> o.tags, due_date |-> o.due_date]

\* the calls the model makes: with a key, one target under every choice of optional
\* fields and every target with none of them; without a key, one target with none
CreateArgs ==
    LET plain == CHOOSE o \in CreateOptionals :
                    \A f \in DOMAIN o : o[f] = UNSET
    IN  { CallArgs(<<5, "x">>, StrV("abc123"), o) : o \in CreateOptionals }
        \cup { CallArgs(t, StrV("abc123"), plain) : t \in Targets }
        \cup { CallArgs(<<5, "x">>, k, plain) : k \in NoKeys }

NoArgs == [user_story_id |-> 0, subject |-> "", idempotency_key |-> UNSET,
           description |-> UNSET, assigned_to |-> UNSET, status |-> UNSET,
           tags |-> UNSET, due_date |-> UNSET]
NoLocal == [project_id |-> 0, cache_key |-> None, payload |-> EmptyDict, task |-> EmptyDict]
NoGet == [time |-> -1, cached |-> None, stored |-> None]
NoHist == [started_after |-> {}, get |-> NoGet, before |-> EmptyDict]

\* the handler caches nothing
NeverStore(cache_key) == FALSE

\* `if cache_key:` after create_task (app.py 1597)
ShouldStore(cache_key) == Truthy(cache_key)

\* a test that takes the empty string for a key
HasIdempotencyKeyOrEmpty(a) == a.idempotency_key # UNSET /\ a.idempotency_key # None

\* `if idempotency_key is not UNSET and idempotency_key:` (app.py 1568)
HasIdempotencyKey(a) == a.idempotency_key # UNSET /\ Truthy(a.idempotency_key)

\* app.py 1574-1593 up to the next await: the payload, and whether the status has
\* to be looked up (next = "list_task_statuses") or create_task is called next
BuildCreatePayload(a, project_id) ==
    LET base == [k \in {"project", "user_story", "subject"} |->
                    CASE k = "project" -> IntV(project_id)
                      [] k = "user_story" -> IntV(a.user_story_id)
                      [] k = "subject" -> StrV(a.subject)]
        p1 == IF a.description # UNSET THEN Put(base, "description", a.description) ELSE base
        p2 == IF a.assigned_to # UNSET THEN Put(p1, "assigned_to", a.assigned_to) ELSE p1
        p3 == IF a.tags # UNSET
              THEN Put(p2, "tags", IF a.tags = None THEN ListV(<<>>) ELSE a.tags) ELSE p2
        due == IF a.due_date # UNSET THEN ValidateDueDate(a.due_date) ELSE Return(UNSET)
        p4 == IF a.due_date # UNSET /\ Returned(due) THEN Put(p3, "due_date", due[2]) ELSE p3
    IN  IF Raised(due) THEN [next |-> "failed", payload |-> p3, result |-> due]
        ELSE IF a.status = UNSET THEN [next |-> "create_task", payload |-> p4, result |-> NoResult]
        ELSE IF a.status = None \/ IsInt(a.status)
             THEN [next |-> "create_task", payload |-> Put(p4, "status", a.status),
                   result |-> NoResult]
        ELSE [next |-> "list_task_statuses", payload |-> p4, result |-> NoResult]

\* move request r on to its next await: its new position and the call it issues
Goto(r, next_pc, events) ==
    /\ pc' = [pc EXCEPT ![r] = next_pc]
    /\ trace' = [trace EXCEPT ![r] = @ \o events]
    /\ UNCHANGED <<result, leaving>>

\* leave the `async with get_taiga_client()` block with outcome res: the `finally`
\* awaits client.close() before res reaches the caller (taiga_client.py 357-358)
Finish(r, res) ==
    /\ pc' = [pc EXCEPT ![r] = "close"]
    /\ trace' = [trace EXCEPT ![r] = @ \o <<"close">>]
    /\ leaving' = [leaving EXCEPT ![r] = res]
    /\ UNCHANGED result

\* run the handler from the payload assembly to its next await
ContinueCreate(r, project_id, cache_key) ==
    LET b == BuildCreatePayload(args[r], project_id) IN
    /\ local' = [local EXCEPT ![r] = [project_id |-> project_id, cache_key |-> cache_key,
                                      payload |-> b.payload, task |-> EmptyDict]]
    /\ IF b.next = "failed" THEN Finish(r, b.result)
       ELSE Goto(r, b.next, <<b.next>>)

Finished(r) == pc[r] \in {"done", "failed"}

\* no update call has arrived
NoUpdate == [pc |-> "idle", tool |-> "", id |-> 0, args |-> EmptyDict, existing |-> EmptyDict,
             payload |-> EmptyDict, result |-> NoResult, trace |-> <<>>, submitted |-> <<>>,
             latest |-> None, answers |-> <<>>, listing |-> <<>>, leaving |-> NoResult]

\* no HTTP action has been requested
NoAction == [pc |-> "idle", kind |-> "", expected |-> None, provided |-> None, body |-> None,
             id |-> 0, project_for_status |-> None, status |-> None, existing |-> EmptyDict,
             payload |-> EmptyDict, trace |-> <<>>, answers |-> <<>>, submitted |-> <<>>,
             record |-> EmptyDict, response |-> NoResult, body_read |-> FALSE,
             leaving |-> NoResult]

\* no other tool has been called
NoCall == [pc |-> "idle", tool |-> "", args |-> EmptyDict, payload |-> EmptyDict,
           listing |-> <<>>, trace |-> <<>>, answers |-> <<>>, result |-> NoResult,
           leaving |-> NoResult]

\* no dict object exists yet
NoMem == [heap |-> <<>>, held |-> {}, stored |-> EmptyDict, got |-> None]

\* statuses POST /auth answers a failed authentication with
AuthFailStatuses == {401}

\* a call arrives: get_taiga_client awaits client.authenticate() (taiga_client.py 355)
TasksCreateStart(r) ==
    /\ pc[r] = "idle"
    /\ IF r = 1 THEN TRUE ELSE pc[r - 1] # "idle"
    /\ \E a \in CreateArgs : args' = [args EXCEPT ![r] = a]
    /\ Goto(r, "authenticate", <<"authenticate">>)
    /\ hist' = [hist EXCEPT ![r].started_after = {q \in Requests : Finished(q)},
                            ![r].before = entries]
    /\ UNCHANGED <<mem, upd, act, call, now, lock, entries, last_store, created_tasks, local>>

\* POST /auth answers: the handler's body starts and awaits get_user_story (app.py
\* 1561), or authenticate raises and the `finally` closes the client
AuthenticateResponse(r) ==
    /\ pc[r] = "authenticate"
    /\ \/ Goto(r, "get_user_story", <<"get_user_story">>)
       \/ \E s \in AuthFailStatuses : Finish(r, AuthError(s))
    /\ UNCHANGED <<mem, upd, act, call, now, lock, entries, last_store, created_tasks, args,
                   local, hist>>

\* get_user_story answers (app.py 1561-1572)
GetUserStoryResponse(r) ==
    /\ pc[r] = "get_user_story"
    /\ \/ \E s \in CreateFailStatuses :
            /\ Finish(r, RemoteError(s))
            /\ UNCHANGED local
       \/ \E project_raw \in RemoteProjects :
            IF ~CanInt(project_raw)
            THEN /\ Finish(r, Raise("TaigaAPIError", 0,
                                    "Unable to resolve project for task creation"))
                 /\ UNCHANGED local
            ELSE IF HasIdempotencyKey(args[r])
            THEN /\ local' = [local EXCEPT ![r].project_id = IntOf(project_raw),
                                           ![r].cache_key =
                                StrV(MakeIdempotencyCacheKey(args[r].idempotency_key[2],
                                        args[r].user_story_id, args[r].subject))]
                 /\ Goto(r, "store_get", <<"store.get">>)
            ELSE ContinueCreate(r, IntOf(project_raw), None)
    /\ UNCHANGED <<mem, upd, act, call, now, lock, entries, last_store, created_tasks, args, hist>>

\* _IdempotencyStore.get enters `async with self._lock`
StoreGetAcquire(r) ==
    /\ pc[r] = "store_get"
    /\ lock = NoHolder
    /\ lock' = r
    /\ pc' = [pc EXCEPT ![r] = "store_get_locked"]
    /\ UNCHANGED <<mem, upd, act, call, now, entries, last_store, created_tasks, args, local,
                   result, trace, hist, leaving>>

\* _IdempotencyStore.get under the lock, and what the handler does with the answer;
\* the purge reads the clock, which has moved on to t
StoreGetRun(r) ==
    /\ pc[r] = "store_get_locked"
    /\ \E t \in ClockReadings :
        LET key == local[r].cache_key[2]
            g == StoreGetBody(entries, key, t)
        IN /\ now' = t
           /\ entries' = g[1]
           /\ hist' = [hist EXCEPT ![r].get =
                         [time |-> t, cached |-> g[2],
                          stored |-> IF key \in DOMAIN last_store
                                     THEN DictV(last_store[key]) ELSE None]]
           /\ IF g[2] # None
              THEN Finish(r, Return(g[2][2])) /\ UNCHANGED local
              ELSE ContinueCreate(r, local[r].project_id, local[r].cache_key)
    /\ lock' = LockReleased(r)
    /\ UNCHANGED <<mem, upd, act, call, last_store, created_tasks, args>>

\* list_task_statuses answers; _resolve_task_status_id scans the listing
ListTaskStatusesResponse(r) ==
    /\ pc[r] = "list_task_statuses"
    /\ \/ \E s \in CreateFailStatuses :
            /\ Finish(r, RemoteError(s))
            /\ UNCHANGED local
       \/ LET res == ResolveInListing(TaskStatuses, args[r].status, "Task status",
                                      local[r].project_id)
          IN IF Raised(res)
             THEN Finish(r, res) /\ UNCHANGED local
             ELSE /\ local' = [local EXCEPT ![r].payload = Put(@, "status", res[2])]
                  /\ Goto(r, "create_task", <<"create_task">>)
    /\ UNCHANGED <<mem, upd, act, call, now, lock, entries, last_store, created_tasks, args, hist>>

\* create_task answers (app.py 1595-1600)
CreateTaskResponse(r) ==
    /\ pc[r] = "create_task"
    /\ \/ \E s \in CreateFailStatuses :
            /\ Finish(r, RemoteError(s))
            /\ UNCHANGED <<local, created_tasks>>
       \/ LET task == CreatedRecord(local[r].payload, Len(created_tasks)) IN
            /\ created_tasks' = Append(created_tasks, local[r].payload)
            /\ local' = [local EXCEPT ![r].task = task]
            /\ IF ShouldStore(local[r].cache_key)
               THEN Goto(r, "store_store", <<"store.store">>)
               ELSE Finish(r, Return(task))
    /\ UNCHANGED <<mem, upd, act, call, now, lock, entries, last_store, args, hist>>

\* _IdempotencyStore.store enters `async with self._lock`
StoreStoreAcquire(r) ==
    /\ pc[r] = "store_store"
    /\ lock = NoHolder
    /\ lock' = r
    /\ pc' = [pc EXCEPT ![r] = "store_store_locked"]
    /\ UNCHANGED <<mem, upd, act, call, now, entries, last_store, created_tasks, args, local,
                   result, trace, hist, leaving>>

\* _IdempotencyStore.store under the lock: the purge reads the clock (t), then
\* expires_at is computed from a second reading (t2)
StoreStoreRun(r) ==
    /\ pc[r] = "store_store_locked"
    /\ \E t \in ClockReadings : \E t2 \in {t, t + 1} :
        /\ t2 <= MaxTime
        /\ now' = t2
        /\ entries' = StoreStoreBody(entries, local[r].cache_key[2], local[r].task, t, t2)
        /\ last_store' = Put(last_store, local[r].cache_key[2],
                             [time |-> t2, value |-> local[r].task, purged_at |-> t])
    /\ lock' = LockReleased(r)
    /\ Finish(r, Return(local[r].task))
    /\ UNCHANGED <<mem, upd, act, call, created_tasks, args, local, hist>>

\* client.close() returns: the outcome reaches the caller
CloseResponse(r) ==
    /\ pc[r] = "close"
    /\ pc' = [pc EXCEPT ![r] = IF Returned(leaving[r]) THEN "done" ELSE "failed"]
    /\ result' = [result EXCEPT ![r] = leaving[r]]
    /\ UNCHANGED <<mem, upd, act, call, now, lock, entries, last_store, created_tasks, args,
                   local, trace, hist, leaving>>

Init ==
    /\ now = 0
    /\ lock = NoHolder
    /\ entries = EmptyDict
    /\ last_store = EmptyDict
    /\ created_tasks = <<>>
    /\ pc = [r \in Requests |-> "idle"]
    /\ args = [r \in Requests |-> NoArgs]
    /\ local = [r \in Requests |-> NoLocal]
    /\ result = [r \in Requests |-> NoResult]
    /\ trace = [r \in Requests |-> <<>>]
    /\ hist = [r \in Requests |-> NoHist]
    /\ upd = NoUpdate
    /\ act = NoAction
    /\ call = NoCall
    /\ mem = NoMem
    /\ leaving = [r \in Requests |-> NoResult]


\* ------------------------------------------------------------------ taiga_stories_update, taiga_tasks_update

StoryId == 5
TaskId == 7

\* what a caller may pass for each parameter: left out, null, or a value
StoryUpdateArgs ==
    [ subject : {UNSET, None, StrV("Revised")},
      description : {UNSET, None, StrV("d")},
      status : {UNSET, None, IntV(11), StrV("In Progress"), StrV("nope")},
      tags : {UNSET, None, ListV(<<"t">>)},
      assigned_to : {UNSET, None, IntV(90)},
      epic_id : {UNSET, None, IntV(4)},
      milestone_id : {UNSET, None, IntV(4)},
      custom_attributes : {UNSET, None, DictV([effort |-> IntV(5)])},
      version : {UNSET, None, IntV(9)} ]

TaskUpdateArgs ==
    [ subject : {UNSET, None, StrV("Revised")},
      description : {UNSET, None, StrV("d")},
      assigned_to : {UNSET, None, IntV(90)},
      status : {UNSET, None, IntV(21), StrV("doing"), StrV("nope")},
      tags : {UNSET, None, ListV(<<"t">>)},
      due_date : {UNSET, None, StrV("2025-11-21"), StrV("20251121"), StrV("21-11-2025")},
      version : {UNSET, None, IntV(9)} ]

\* the version of the record the remote API returns before / after a failed submit
RemoteVersions == {IntV(2), None}
LatestVersions == {IntV(3), None}

\* the parameters that are fields of the record (all but the id and the version)
UpdateFields(tool) ==
    IF tool = "stories"
    THEN {"subject", "description", "status", "tags", "assigned_to", "epic_id",
          "milestone_id", "custom_attributes"}
    ELSE {"subject", "description", "assigned_to", "status", "tags", "due_date"}

\* the payload key a parameter is sent under
PayloadName(field) ==
    CASE field = "epic_id" -> "epic"
      [] field = "milestone_id" -> "milestone"
      [] OTHER -> field

\* the names the handlers use in their messages and calls
Noun(tool) == IF tool = "stories" THEN "story" ELSE "task"
GetCall(tool) == IF tool = "stories" THEN "get_user_story" ELSE "get_task"
UpdateCall(tool) == IF tool = "stories" THEN "update_user_story" ELSE "update_task"
StatusesCall(tool) == IF tool = "stories" THEN "list_user_story_statuses" ELSE "list_task_statuses"
StatusLabel(tool) == IF tool = "stories" THEN "Status" ELSE "Task status"

\* a builder that sends a left-out field as null
SetFieldAlways(payload, name, value) == Put(payload, name, IF value = UNSET THEN None ELSE value)

\* `if x is not UNSET: payload[name] = x`
SetField(payload, name, value) == IF value # UNSET THEN Put(payload, name, value) ELSE payload

\* `if tags is not UNSET: payload["tags"] = [] if tags is None else tags`
SetTags(payload, tags) ==
    IF tags # UNSET THEN Put(payload, "tags", IF tags = None THEN ListV(<<>>) ELSE tags)
    ELSE payload

\* has_updates always true
AlwaysHasUpdates(tool, a) == TRUE

\* has_updates: some field parameter was given
HasUpdates(tool, a) == \E f \in UpdateFields(tool) : a[f] # UNSET

\* app.py 1469-1492: the story fields other than status
StoryFieldsPayload(a) ==
    LET p1 == SetField(EmptyDict, "subject", a.subject)
        p2 == SetField(p1, "description", a.description)
        p3 == SetTags(p2, a.tags)
        p4 == SetField(p3, "assigned_to", a.assigned_to)
        p5 == SetField(p4, "epic", a.epic_id)
        p6 == SetField(p5, "milestone", a.milestone_id)
    IN  Return(SetField(p6, "custom_attributes", a.custom_attributes))

\* app.py 1627-1641: the task fields assigned before due_date is looked at
TaskFieldsBeforeDueDate(a) ==
    LET p1 == SetField(EmptyDict, "subject", a.subject)
        p2 == SetField(p1, "description", a.description)
        p3 == SetField(p2, "assigned_to", a.assigned_to)
    IN  SetTags(p3, a.tags)

\* app.py 1627-1644: the task fields other than status; a bad due_date raises
TaskFieldsPayload(a) ==
    LET p4 == TaskFieldsBeforeDueDate(a)
        due == IF a.due_date # UNSET THEN ValidateDueDate(a.due_date) ELSE Return(UNSET)
    IN  IF Raised(due) THEN due ELSE Return(SetField(p4, "due_date", due[2]))

\* a resolution that ignores the caller's version and always takes the fetched one
ResolveVersionFetched(version, existing, tool) ==
    LET version_value == Get(existing, "version") IN
    IF version_value = None \/ ~CanInt(version_value)
    THEN Raise("TaigaAPIError", 0, "Unable to resolve version for " \o Noun(tool) \o " update")
    ELSE Return(IntV(IntOf(version_value)))

\* app.py 1505-1514 / 1656-1665: the version to submit
ResolveVersion(version, existing, tool) ==
    IF version = UNSET \/ version = None
    THEN LET version_value == Get(existing, "version") IN
         IF version_value = None \/ ~CanInt(version_value)
         THEN Raise("TaigaAPIError", 0, "Unable to resolve version for " \o Noun(tool) \o " update")
         ELSE Return(IntV(IntOf(version_value)))
    ELSE Return(IntV(IntOf(version)))

\* app.py 1502-1517 / 1653-1668: after the status step, up to the submit
AfterStatus(tool, a, existing, payload) ==
    IF ~HasUpdates(tool, a)
    THEN [next |-> "failed", payload |-> payload,
          result |-> Raise("ValueError", 0,
                           "At least one field must be provided to update the " \o Noun(tool))]
    ELSE LET v == ResolveVersion(a.version, existing, tool) IN
         IF Raised(v) THEN [next |-> "failed", payload |-> payload, result |-> v]
         ELSE [next |-> "submit", payload |-> Put(payload, "version", v[2]), result |-> NoResult]

\* the handler from the answer of the first read to its next await; when
\* _validate_due_date raises (task update only), the fields assigned before it stay
\* in the handler's payload
AfterGetCurrent(tool, a, existing) ==
    LET fields == IF tool = "stories" THEN StoryFieldsPayload(a) ELSE TaskFieldsPayload(a) IN
    IF ~CanInt(Get(existing, "project"))
    THEN [next |-> "failed", payload |-> EmptyDict,
          result |-> Raise("TaigaAPIError", 0,
                           "Unable to resolve project for " \o Noun(tool) \o " update")]
    ELSE IF Raised(fields)
         THEN [next |-> "failed", payload |-> TaskFieldsBeforeDueDate(a), result |-> fields]
    ELSE IF a.status = UNSET THEN AfterStatus(tool, a, existing, fields[2])
    ELSE IF a.status = None
         THEN AfterStatus(tool, a, existing, Put(fields[2], "status", None))
    ELSE IF Returned(ResolveWithoutListing(a.status))
         THEN AfterStatus(tool, a, existing,
                          Put(fields[2], "status", ResolveWithoutListing(a.status)[2]))
    ELSE [next |-> "list_statuses", payload |-> fields[2], result |-> NoResult]

\* move the update call on when the call it awaited is answered with `answer`; a call
\* that is issued is appended to the trace, and a payload handed to the remote update
\* is appended to `submitted`; an outcome (b.next = "failed") is held while
\* get_taiga_client awaits client.close()
UpdGoto(b, existing, events, answer) ==
    upd' = [upd EXCEPT
              !.pc = IF b.next = "failed" THEN "close" ELSE b.next,
              !.existing = existing,
              !.payload = b.payload,
              !.leaving = IF b.next = "failed" THEN b.result ELSE @,
              !.trace = @ \o events,
              !.answers = Append(@, answer),
              !.listing = IF "listing" \in DOMAIN b THEN b.listing ELSE @,
              !.submitted = IF b.next = "submit" THEN Append(@, b.payload) ELSE @]

\* the call each position awaits; leaving the handler closes the client
CallAt(tool, next) ==
    CASE next = "list_statuses" -> <<StatusesCall(tool)>>
      [] next = "submit" -> <<UpdateCall(tool)>>
      [] next = "refetch" -> <<GetCall(tool)>>
      [] OTHER -> <<"close">>

UpdStep(b, answer) == UpdGoto(b, upd.existing, CallAt(upd.tool, b.next), answer)

UpdFail(res, answer) ==
    UpdStep([next |-> "failed", payload |-> upd.payload, result |-> res], answer)

\* the request did not reach the remote API: httpx raises its own error, which
\* _request does not catch; there is no status (0)
TransportError == Raise("ConnectError", 0, "All connection attempts failed")

\* the answer of a call that succeeded
OK == 200

CreateVars == <<now, lock, entries, last_store, created_tasks, pc, args, local, result, trace,
                hist, mem, leaving>>

\* an update call arrives: get_taiga_client awaits client.authenticate()
UpdateStart ==
    /\ upd.pc = "idle"
    /\ \E tool \in {"stories", "tasks"} :
        \E a \in IF tool = "stories" THEN StoryUpdateArgs ELSE TaskUpdateArgs :
            upd' = [upd EXCEPT
                      !.tool = tool,
                      !.id = IF tool = "stories" THEN StoryId ELSE TaskId,
                      !.args = a,
                      !.pc = "authenticate",
                      !.trace = <<"authenticate">>]
    /\ UNCHANGED <<CreateVars, act, call>>

\* POST /auth answers: the record is read, or authenticate raises
UpdateAuthResponse ==
    /\ upd.pc = "authenticate"
    /\ \/ upd' = [upd EXCEPT !.pc = "get_current",
                              !.trace = Append(@, GetCall(upd.tool)),
                              !.answers = Append(@, OK)]
       \/ \E s \in AuthFailStatuses : UpdFail(AuthError(s), s)
    /\ UNCHANGED <<CreateVars, act, call>>

\* get_user_story / get_task answers
UpdateGetCurrentResponse ==
    /\ upd.pc = "get_current"
    /\ \/ \E s \in FailStatuses : UpdFail(RemoteError(s), s)
       \/ \E project \in RemoteProjects, version \in RemoteVersions :
            LET existing == [k \in {"id", "project", "version"} |->
                               CASE k = "id" -> IntV(upd.id)
                                 [] k = "project" -> project
                                 [] k = "version" -> version]
                b == AfterGetCurrent(upd.tool, upd.args, existing)
            IN  UpdGoto(b, existing, CallAt(upd.tool, b.next), OK)
    /\ UNCHANGED <<CreateVars, act, call>>

\* the status listing answers; the resolver scans it
UpdateListStatusesResponse ==
    /\ upd.pc = "list_statuses"
    /\ \/ \E s \in FailStatuses : UpdFail(RemoteError(s), s)
       \/ \E listing \in IF upd.tool = "stories" THEN StoryListings ELSE TaskListings :
            LET res == ResolveInListing(listing, upd.args.status, StatusLabel(upd.tool),
                                        IntOf(upd.existing["project"]))
                b == IF Raised(res)
                     THEN [next |-> "failed", payload |-> upd.payload, result |-> res]
                     ELSE AfterStatus(upd.tool, upd.args, upd.existing,
                                      Put(upd.payload, "status", res[2]))
            IN UpdGoto([next |-> b.next, payload |-> b.payload, result |-> b.result,
                        listing |-> listing],
                       upd.existing, CallAt(upd.tool, b.next), OK)
    /\ UNCHANGED <<CreateVars, act, call>>

\* an `except` that lets every error of the submit through as it is
SubmitFailedPassThrough(s, payload) ==
    [next |-> "failed", payload |-> payload, result |-> RemoteError(s)]

\* a handler that reads the record again after any failed submit
SubmitFailedAlwaysRefetch(s, payload) ==
    [next |-> "refetch", payload |-> payload, result |-> NoResult]

\* `except TaigaAPIError as exc`: a 409 leads to a read of the record, any other
\* status is raised again
SubmitFailed(s, payload) ==
    IF s = 409 THEN [next |-> "refetch", payload |-> payload, result |-> NoResult]
    ELSE [next |-> "failed", payload |-> payload, result |-> RemoteError(s)]

\* update_user_story / update_task answers (app.py 1516-1527 / 1667-1678)
UpdateSubmitResponse ==
    /\ upd.pc = "submit"
    /\ \/ \E s \in FailStatuses : UpdStep(SubmitFailed(s, upd.payload), s)
       \/ UpdStep([next |-> "failed", payload |-> upd.payload,
                   result |-> Return(Update(upd.existing, upd.payload))], OK)
    /\ UNCHANGED <<CreateVars, act, call>>

\* the message of the error a 409 is rewritten into (app.py 1522-1524 / 1673-1675)
ConflictMessage(tool, id, latest_version) ==
    "Conflict updating " \o (IF tool = "stories" THEN "user story " ELSE "task ")
    \o ToString(id) \o ": latest version is " \o PyStr(latest_version)

\* the read after a 409 answers
UpdateRefetchResponse ==
    /\ upd.pc = "refetch"
    /\ \/ \E s \in FailStatuses : UpdFail(RemoteError(s), s)
       \/ \E version \in LatestVersions :
            LET latest == Put(upd.existing, "version", version) IN
            upd' = [upd EXCEPT
                      !.pc = "close",
                      !.latest = DictV(latest),
                      !.leaving = Raise("ValueError", 0,
                                        ConflictMessage(upd.tool, upd.id, Get(latest, "version"))),
                      !.answers = Append(@, OK),
                      !.trace = @ \o <<"close">>]
    /\ UNCHANGED <<CreateVars, act, call>>

\* client.close() returns: the outcome reaches the caller
UpdateCloseResponse ==
    /\ upd.pc = "close"
    /\ upd' = [upd EXCEPT !.pc = IF Returned(upd.leaving) THEN "done" ELSE "failed",
                          !.result = upd.leaving]
    /\ UNCHANGED <<CreateVars, act, call>>

NextUpdate ==
    \/ UpdateStart
    \/ UpdateAuthResponse
    \/ UpdateGetCurrentResponse
    \/ UpdateListStatusesResponse
    \/ UpdateSubmitResponse
    \/ UpdateRefetchResponse
    \/ UpdateCloseResponse

SpecUpdate == Init /\ [][NextUpdate]_vars

\* ------------------------------------------------------------------ HTTP update actions

\* a projector that fills the keys the record lacks with null
SliceNullFilled(record, keys) == [key \in {keys[i] : i \in 1..Len(keys)} |-> Get(record, key)]

\* _slice: {key: record.get(key) for key in keys if key in record}
Slice(record, keys) ==
    [key \in {keys[i] : i \in 1..Len(keys)} \cap DOMAIN record |-> Get(record, key)]

\* _error_response / JSONResponse: <<"response", status code, JSON body>>
ErrorResponse(message, status_code) ==
    <<"response", status_code, DictV([error |-> StrV(message)])>>
JSONResponse(body) == <<"response", OK, DictV(body)>>

\* a check that only asks for some header to be present
VerifyApiKeyPresent(expected, provided) ==
    IF ~Truthy(expected) THEN ErrorResponse("Proxy API key is not configured", 503)
    ELSE IF ~Truthy(provided) THEN ErrorResponse("Missing X-Api-Key header", 401)
    ELSE None

\* _verify_api_key: None when the header equals the configured key, else the error
VerifyApiKey(expected, provided) ==
    IF ~Truthy(expected) THEN ErrorResponse("Proxy API key is not configured", 503)
    ELSE IF ~Truthy(provided) THEN ErrorResponse("Missing X-Api-Key header", 401)
    ELSE IF provided # expected THEN ErrorResponse("Invalid API key", 401)
    ELSE None

\* int(value) on the strings of digits the model sends
DecimalStrings == [x \in {"7"} |-> 7]

\* _parse_int / _optional_int
ParseInt(value, field) ==
    IF IsInt(value) THEN Return(value)
    ELSE IF IsStr(value) /\ value[2] \in DOMAIN DecimalStrings
         THEN Return(IntV(DecimalStrings[value[2]]))
    ELSE Raise("ValueError", 0, field \o " must be an integer")
OptionalInt(value, field) == IF value = None THEN Return(None) ELSE ParseInt(value, field)

\* `if field in data: payload[key] = ...`, for each way the actions convert a field;
\* the first field that fails validation decides the error
FieldStr(res, data, field, key) ==
    IF Raised(res) \/ field \notin DOMAIN data THEN res
    ELSE Return(Put(res[2], key, Str(data[field])))
FieldRaw(res, data, field, key) ==
    IF Raised(res) \/ field \notin DOMAIN data THEN res
    ELSE Return(Put(res[2], key, data[field]))
FieldInt(res, data, field, key) ==
    IF Raised(res) \/ field \notin DOMAIN data THEN res
    ELSE LET v == ParseInt(data[field], field) IN
         IF Raised(v) THEN v ELSE Return(Put(res[2], key, v[2]))
FieldOptInt(res, data, field, key) ==
    IF Raised(res) \/ field \notin DOMAIN data THEN res
    ELSE LET v == OptionalInt(data[field], field) IN
         IF Raised(v) THEN v ELSE Return(Put(res[2], key, v[2]))
FieldTags(res, data) ==
    IF Raised(res) \/ "tags" \notin DOMAIN data THEN res
    ELSE IF data["tags"] # None /\ data["tags"][1] # "list"
         THEN Raise("ValueError", 0, "tags must be a list")
    ELSE Return(Put(res[2], "tags", data["tags"]))

\* the check every action but update_story ends its validation with
NonEmpty(res) ==
    IF Raised(res) \/ DOMAIN res[2] # {} THEN res
    ELSE Raise("ValueError", 0, "At least one field must be provided to update")

\* app.py 520-557: the payload of update_story; a status is resolved later
StoryPayload(data) ==
    LET p1 == FieldInt(Return(EmptyDict), data, "project_id", "project")
        p2 == FieldStr(p1, data, "subject", "subject")
        p3 == FieldRaw(p2, data, "description", "description")
        p4 == FieldTags(p3, data)
        p5 == FieldOptInt(p4, data, "assigned_to", "assigned_to")
    IN  IF Raised(p5) THEN p5
        ELSE IF "status" \in DOMAIN data /\ data["status"] = None
             THEN Raise("ValueError", 0, "status cannot be null")
        ELSE IF DOMAIN p5[2] = {} /\ "status" \notin DOMAIN data
             THEN Raise("ValueError", 0, "At least one field must be provided to update")
        ELSE p5

\* app.py 747-778
EpicPayload(data) ==
    LET p1 == FieldStr(Return(EmptyDict), data, "subject", "subject")
        p2 == FieldRaw(p1, data, "description", "description")
        p3 == FieldInt(p2, data, "status", "status")
        p4 == FieldOptInt(p3, data, "assigned_to", "assigned_to")
        p5 == FieldTags(p4, data)
    IN  NonEmpty(FieldRaw(p5, data, "color", "color"))

\* app.py 942-976
TaskPayload(data) ==
    LET p1 == FieldStr(Return(EmptyDict), data, "subject", "subject")
        p2 == FieldRaw(p1, data, "description", "description")
        p3 == FieldInt(p2, data, "status", "status")
        p4 == FieldOptInt(p3, data, "assigned_to", "assigned_to")
        p5 == FieldTags(p4, data)
    IN  NonEmpty(FieldInt(p5, data, "user_story_id", "user_story"))

\* app.py 1142-1175
IssuePayload(data) ==
    LET p1 == FieldStr(Return(EmptyDict), data, "subject", "subject")
        p2 == FieldRaw(p1, data, "description", "description")
        p3 == FieldInt(p2, data, "status", "status")
        p4 == FieldInt(p3, data, "priority", "priority")
        p5 == FieldInt(p4, data, "severity", "severity")
        p6 == FieldInt(p5, data, "type", "issue_type")
        p7 == FieldOptInt(p6, data, "assigned_to", "assigned_to")
    IN  NonEmpty(FieldTags(p7, data))

ActionKinds == {"story", "epic", "task", "issue"}

\* app.py 864-897: the payload of create_task
CreateTaskPayload(data) ==
    LET p1 == FieldInt(Return(EmptyDict), data, "project_id", "project")
        p2 == FieldStr(p1, data, "subject", "subject")
        p3 == FieldRaw(p2, data, "description", "description")
        p4 == FieldInt(p3, data, "status", "status")
        p5 == FieldOptInt(p4, data, "assigned_to", "assigned_to")
        p6 == FieldTags(p5, data)
    IN  FieldInt(p6, data, "user_story_id", "user_story")

ActionPayload(kind, data) ==
    CASE kind = "story" -> StoryPayload(data)
      [] kind = "epic" -> EpicPayload(data)
      [] kind = "task" -> TaskPayload(data)
      [] kind = "issue" -> IssuePayload(data)
      [] kind = "create_task" -> CreateTaskPayload(data)

\* the key of the record in the JSON an action answers with
ResponseKey(kind) == IF kind = "create_task" THEN "task" ELSE kind

\* the client methods an action calls
ActionGetCall(kind) == IF kind = "story" THEN "get_user_story" ELSE "get_" \o kind
ActionUpdateCall(kind) == IF kind = "story" THEN "update_user_story" ELSE "update_" \o kind

\* the allow-lists the actions answer with
Keep(kind) ==
    CASE kind = "story" ->
            <<"id", "ref", "subject", "project", "status", "description", "assigned_to",
              "tags", "created_date", "modified_date">>
      [] kind = "epic" ->
            <<"id", "ref", "subject", "project", "status", "description", "assigned_to",
              "tags", "color", "created_date", "modified_date">>
      [] kind \in {"task", "create_task"} ->
            <<"id", "ref", "subject", "project", "status", "description", "assigned_to",
              "tags", "user_story", "created_date", "modified_date">>
      [] kind = "issue" ->
            <<"id", "ref", "subject", "project", "status", "priority", "severity",
              "issue_type", "description", "assigned_to", "tags", "created_date",
              "modified_date">>

\* ---- the requests

\* a field the JSON object does not have
Absent == <<"absent">>
\* the JSON object of a choice of fields
Data(fields) == [f \in {g \in DOMAIN fields : fields[g] # Absent} |-> fields[f]]

\* ACTION_PROXY_API_KEY in the environment, and the X-Api-Key header of the request
ConfiguredKeys == {None, StrV(""), StrV("s3cret")}
ProvidedKeys == {None, StrV(""), StrV("wrong"), StrV("s3cret")}

\* a body that is not JSON, and a JSON body that is not an object
InvalidJson == <<"invalid json">>
JsonArray == ListV(<<>>)

Ids == {Absent, IntV(7), StrV("7"), StrV("abc")}
SubjectValues == {Absent, StrV("Revised"), None}
AssignedValues == {Absent, None, IntV(90), StrV("bob")}
TagsValues == {Absent, None, ListV(<<"t">>), StrV("t")}
IntValues == {Absent, IntV(1), None}

ActionBodies(kind) ==
    {InvalidJson, JsonArray} \cup
    { DictV(Data(f)) : f \in
        CASE kind = "story" ->
                [ story_id : Ids, project_id : {Absent, IntV(3), StrV("abc")},
                  subject : SubjectValues, description : {Absent, None},
                  tags : TagsValues, assigned_to : AssignedValues,
                  status : {Absent, None, IntV(11), StrV("in-progress"), StrV("nope"),
                            ListV(<<>>)} ]
          [] kind = "epic" ->
                [ epic_id : Ids, subject : SubjectValues, description : {Absent, None},
                  status : IntValues, assigned_to : AssignedValues, tags : TagsValues,
                  color : {Absent, StrV("#fff")} ]
          [] kind = "task" ->
                [ task_id : Ids, subject : SubjectValues, description : {Absent, None},
                  status : IntValues, assigned_to : AssignedValues, tags : TagsValues,
                  user_story_id : {Absent, IntV(5), StrV("abc")} ]
          [] kind = "issue" ->
                [ issue_id : Ids, subject : SubjectValues, description : {Absent, None},
                  status : IntValues, priority : {Absent, IntV(2)},
                  severity : {Absent, StrV("high")}, type : {Absent, IntV(3)},
                  assigned_to : AssignedValues, tags : TagsValues ] }

\* ---- the handlers

\* an answer that passes the upstream status of a remote error on
RespondWithUpstreamStatus(kind, res) ==
    IF Returned(res) THEN JSONResponse((ResponseKey(kind) :> DictV(Slice(res[2], Keep(kind)))))
    ELSE IF res[2] = "TaigaAPIError" THEN ErrorResponse(res[4], IF res[3] = 0 THEN 400 ELSE res[3])
    ELSE ErrorResponse("Internal server error", 500)

\* the answer for what the handler returned or raised inside `try` (TaigaAPIError is
\* answered with its message, anything else with a fixed text)
Respond(kind, res) ==
    IF Returned(res) THEN JSONResponse((ResponseKey(kind) :> DictV(Slice(res[2], Keep(kind)))))
    ELSE IF res[2] = "TaigaAPIError" THEN ErrorResponse(res[4], 400)
    ELSE ErrorResponse("Internal server error", 500)

\* move the action on when the call it awaited is answered; an outcome (b.next =
\* "failed") is held while _call_taiga leaves get_taiga_client, which awaits
\* client.close()
ActGoto(b, existing, answer) ==
    act' = [act EXCEPT
              !.pc = IF b.next = "failed" THEN "close" ELSE b.next,
              !.existing = existing,
              !.payload = b.payload,
              !.record = IF Returned(b.result) THEN b.result[2] ELSE @,
              !.leaving = IF b.next = "failed" THEN b.result ELSE @,
              !.trace = @ \o (CASE b.next = "list_statuses" -> <<"list_user_story_statuses">>
                                [] b.next = "submit" -> <<ActionUpdateCall(act.kind)>>
                                [] OTHER -> <<"close">>),
              !.answers = Append(@, answer),
              !.submitted = IF b.next = "submit" THEN Append(@, b.payload) ELSE @]

ActFail(res, answer) ==
    ActGoto([next |-> "failed", payload |-> act.payload, result |-> res], act.existing, answer)

\* the version step the four _update_*_with_client share, up to the submit
ActionVersion(kind, existing, payload) ==
    LET version == Get(existing, "version") IN
    IF version = None \/ ~CanInt(version)
    THEN [next |-> "failed", payload |-> payload,
          result |-> Raise("TaigaAPIError", 0,
                           "Unable to resolve version for " \o kind \o " update")]
    ELSE [next |-> "submit", payload |-> Put(payload, "version", IntV(IntOf(version))),
          result |-> NoResult]

\* `project_for_status or existing.get("project")`
ProjectForStatus(project_for_status, existing) ==
    IF project_for_status # None /\ project_for_status # IntV(0) THEN project_for_status
    ELSE Get(existing, "project")

\* _update_story_with_client from the answer of get_user_story to its next await
StoryAfterGet(a, existing) ==
    LET project == ProjectForStatus(a.project_for_status, existing)
        lookup_failed == [next |-> "failed", payload |-> a.payload,
                          result |-> Raise("TaigaAPIError", 0,
                                           "Unable to resolve project for story status lookup")]
    IN  IF project # None /\ ~CanInt(project) THEN lookup_failed
        ELSE IF a.status = None THEN ActionVersion("story", existing, a.payload)
        ELSE IF IsInt(a.status)
             THEN ActionVersion("story", existing, Put(a.payload, "status", a.status))
        ELSE IF IsStr(a.status)
             THEN IF project = None THEN lookup_failed
                  ELSE [next |-> "list_statuses", payload |-> a.payload, result |-> NoResult]
        ELSE [next |-> "failed", payload |-> a.payload,
              result |-> Raise("TaigaAPIError", 0, "status must be an integer or string")]

\* a request arrives; the action checks the key before anything else
ActionStart ==
    /\ act.pc = "idle"
    /\ \E kind \in ActionKinds, expected \in ConfiguredKeys, provided \in ProvidedKeys :
        \E body \in ActionBodies(kind) :
            LET error == VerifyApiKey(expected, provided) IN
            act' = [act EXCEPT
                      !.kind = kind, !.expected = expected, !.provided = provided,
                      !.body = body,
                      !.pc = IF error # None THEN "done" ELSE "read_body",
                      !.response = IF error # None THEN error ELSE NoResult]
    /\ UNCHANGED <<CreateVars, upd, call>>

\* what the action does with the body, up to its first remote call: an error
\* response, or the id and the payload to go on with (create_task has no id: its
\* required fields are checked in order)
Validate(kind, body) ==
    IF body = InvalidJson THEN ErrorResponse("Request body must be valid JSON", 400)
    ELSE IF body[1] # "dict" THEN ErrorResponse("Request body must be a JSON object", 400)
    ELSE LET data == body[2]
             id_field == kind \o "_id"
         IN IF kind = "create_task"
            THEN IF "project_id" \notin DOMAIN data
                 THEN ErrorResponse("Field 'project_id' is required", 400)
                 ELSE IF "subject" \notin DOMAIN data
                 THEN ErrorResponse("Field 'subject' is required", 400)
                 ELSE LET payload == ActionPayload(kind, data)
                      IN IF Raised(payload) THEN ErrorResponse(payload[4], 400)
                         ELSE <<"valid", 0, payload[2]>>
            ELSE IF id_field \notin DOMAIN data
            THEN ErrorResponse("Field '" \o id_field \o "' is required", 400)
            ELSE LET id == ParseInt(data[id_field], id_field)
                     payload == ActionPayload(kind, data)
                 IN IF Raised(id) THEN ErrorResponse(id[4], 400)
                    ELSE IF Raised(payload) THEN ErrorResponse(payload[4], 400)
                    ELSE <<"valid", id[2][2], payload[2]>>

\* request.json() returns; the body is validated, then _call_taiga opens a client:
\* get_taiga_client awaits client.authenticate()
ActionBodyRead ==
    /\ act.pc = "read_body"
    /\ LET v == Validate(act.kind, act.body) IN
       IF v[1] = "response"
       THEN act' = [act EXCEPT !.pc = "done", !.body_read = TRUE, !.response = v]
       ELSE act' = [act EXCEPT
                      !.body_read = TRUE,
                      !.id = v[2],
                      !.payload = v[3],
                      !.project_for_status = Get(v[3], "project"),
                      !.status = Get(act.body[2], "status"),
                      !.pc = "authenticate",
                      !.trace = <<"authenticate">>]
    /\ UNCHANGED <<CreateVars, upd, call>>

\* POST /auth answers: the action's first call is awaited (the read of the record,
\* or create_task with the payload), or authenticate raises
ActionAuthResponse ==
    /\ act.pc = "authenticate"
    /\ \/ act' = [act EXCEPT
                     !.pc = IF act.kind = "create_task" THEN "create" ELSE "get_current",
                     !.trace = Append(@, IF act.kind = "create_task" THEN "create_task"
                                         ELSE ActionGetCall(act.kind)),
                     !.answers = Append(@, OK),
                     !.submitted = IF act.kind = "create_task" THEN Append(@, act.payload)
                                   ELSE @]
       \/ \E s \in AuthFailStatuses : ActFail(AuthError(s), s)
    /\ UNCHANGED <<CreateVars, upd, call>>

\* get_user_story / get_epic / get_task / get_issue answers
ActionGetCurrentResponse ==
    /\ act.pc = "get_current"
    /\ \/ \E s \in FailStatuses : ActFail(RemoteError(s), s)
       \/ ActFail(TransportError, 0)
       \/ \E project \in RemoteProjects, version \in RemoteVersions :
            LET existing == [k \in {"id", "project", "version"} |->
                               CASE k = "id" -> IntV(act.id)
                                 [] k = "project" -> project
                                 [] k = "version" -> version]
            IN ActGoto(IF act.kind = "story" THEN StoryAfterGet(act, existing)
                       ELSE ActionVersion(act.kind, existing, act.payload),
                       existing, OK)
    /\ UNCHANGED <<CreateVars, upd, call>>

\* list_user_story_statuses answers (update_story with a status name)
ActionListStatusesResponse ==
    /\ act.pc = "list_statuses"
    /\ \/ \E s \in FailStatuses : ActFail(RemoteError(s), s)
       \/ ActFail(TransportError, 0)
       \/ LET res == ResolveInListing(StoryStatuses, act.status, "Status",
                                      IntOf(ProjectForStatus(act.project_for_status,
                                                             act.existing)))
          IN IF Raised(res) THEN ActFail(res, OK)
             ELSE ActGoto(ActionVersion("story", act.existing,
                                        Put(act.payload, "status", res[2])),
                          act.existing, OK)
    /\ UNCHANGED <<CreateVars, upd, call>>

\* update_user_story / update_epic / update_task / update_issue answers
ActionSubmitResponse ==
    /\ act.pc = "submit"
    /\ \/ \E s \in FailStatuses : ActFail(RemoteError(s), s)
       \/ ActFail(TransportError, 0)
       \/ ActFail(Return(Update(act.existing, act.payload)), OK)
    /\ UNCHANGED <<CreateVars, upd, call>>

\* client.close() returns: the action answers with what the call returned or raised
ActionCloseResponse ==
    /\ act.pc = "close"
    /\ act' = [act EXCEPT !.pc = "done", !.response = Respond(act.kind, act.leaving)]
    /\ UNCHANGED <<CreateVars, upd, call>>

NextAction ==
    \/ ActionStart
    \/ ActionBodyRead
    \/ ActionAuthResponse
    \/ ActionGetCurrentResponse
    \/ ActionListStatusesResponse
    \/ ActionSubmitResponse
    \/ ActionCloseResponse

SpecAction == Init /\ [][NextAction]_vars

\* ------------------------------------------------------------------ every way a task is created

\* POST /actions/create_task creates tasks too, without the store

\* the request of the action the model sends next to the tool calls
CreateTaskKeys == {StrV("s3cret")}
CreateTaskBodies ==
    { DictV([project_id |-> IntV(3), subject |-> StrV("x"), user_story_id |-> IntV(5)]) }

\* a request arrives; the action checks the key before anything else (app.py 851-853)
CreateTaskActionStart ==
    /\ act.pc = "idle"
    /\ \E provided \in CreateTaskKeys, body \in CreateTaskBodies :
        LET expected == StrV("s3cret")
            error == VerifyApiKey(expected, provided)
        IN  act' = [act EXCEPT
                      !.kind = "create_task", !.expected = expected, !.provided = provided,
                      !.body = body,
                      !.pc = IF error # None THEN "done" ELSE "read_body",
                      !.response = IF error # None THEN error ELSE NoResult]
    /\ UNCHANGED <<CreateVars, upd, call>>

\* create_task answers the action (app.py 899-902): the remote API has one more task
ActionCreateResponse ==
    /\ act.pc = "create"
    /\ \/ \E s \in CreateFailStatuses :
            ActFail(RemoteError(s), s) /\ UNCHANGED created_tasks
       \/ /\ created_tasks' = Append(created_tasks, act.payload)
          /\ ActFail(Return(CreatedRecord(act.payload, Len(created_tasks))), OK)
    /\ UNCHANGED <<now, lock, entries, last_store, pc, args, local, result, trace, hist, mem,
                   leaving, upd, call>>

\* overlapping taiga_tasks_create calls, and a create_task action next to them
Next ==
    \/ \E r \in Pair : TasksCreateStart(r)
    \/ \E r \in Requests : AuthenticateResponse(r)
    \/ \E r \in Requests : GetUserStoryResponse(r)
    \/ \E r \in Requests : StoreGetAcquire(r)
    \/ \E r \in Requests : StoreGetRun(r)
    \/ \E r \in Requests : ListTaskStatusesResponse(r)
    \/ \E r \in Requests : CreateTaskResponse(r)
    \/ \E r \in Requests : StoreStoreAcquire(r)
    \/ \E r \in Requests : StoreStoreRun(r)
    \/ \E r \in Requests : CloseResponse(r)
    \/ CreateTaskActionStart
    \/ ActionBodyRead
    \/ ActionAuthResponse
    \/ ActionCreateResponse
    \/ ActionCloseResponse

Spec == Init /\ [][Next]_vars

\* ------------------------------------------------------------------ a call, a failed call, a retry

\* the calls of a client that repeats one request: the same key, user story and
\* subject, under every choice of the optional fields
RetryArgs ==
    {a \in CreateArgs : /\ a.idempotency_key = StrV("abc123")
                        /\ a.user_story_id = 5 /\ a.subject = "x"}

\* the client sends its next call once the call before it has returned or raised
RetryStart(r) ==
    /\ \A q \in Requests \ {r} : pc[q] = "idle" \/ Finished(q)
    /\ TasksCreateStart(r)
    /\ args'[r] \in RetryArgs

\* three taiga_tasks_create calls with one key, one after the other
NextRetry ==
    \/ \E r \in Requests : RetryStart(r)
    \/ \E r \in Requests : AuthenticateResponse(r)
    \/ \E r \in Requests : GetUserStoryResponse(r)
    \/ \E r \in Requests : StoreGetAcquire(r)
    \/ \E r \in Requests : StoreGetRun(r)
    \/ \E r \in Requests : ListTaskStatusesResponse(r)
    \/ \E r \in Requests : CreateTaskResponse(r)
    \/ \E r \in Requests : StoreStoreAcquire(r)
    \/ \E r \in Requests : StoreStoreRun(r)
    \/ \E r \in Requests : CloseResponse(r)

SpecRetry == Init /\ [][NextRetry]_vars

\* every update path of the service, one call at a time: the two update tools and the
\* four HTTP update actions
NextUpdatePaths ==
    \/ act.pc = "idle" /\ UpdateStart
    \/ UpdateAuthResponse
    \/ UpdateGetCurrentResponse
    \/ UpdateListStatusesResponse
    \/ UpdateSubmitResponse
    \/ UpdateRefetchResponse
    \/ UpdateCloseResponse
    \/ upd.pc = "idle" /\ ActionStart
    \/ ActionBodyRead
    \/ ActionAuthResponse
    \/ ActionGetCurrentResponse
    \/ ActionListStatusesResponse
    \/ ActionSubmitResponse
    \/ ActionCloseResponse

SpecUpdatePaths == Init /\ [][NextUpdatePaths]_vars

\* ------------------------------------------------------------------ taiga_stories_create

StoriesCreateArgs ==
    [ project_id : {3}, subject : {"s"},
      description : {None, StrV(""), StrV("d")},
      status : {None, IntV(11), StrV("In Progress"), StrV("in-progress"),
                StrV("in progress"), StrV("nope")},
      tags : {None, ListV(<<>>), ListV(<<"t">>)},
      assigned_to : {None, IntV(90)} ]

\* app.py 1413-1424: the payload, once the status is resolved
StoriesCreatePayload(a, status_id) ==
    LET base == [k \in {"project", "subject"} |->
                    IF k = "project" THEN IntV(a.project_id) ELSE StrV(a.subject)]
        p1 == IF Truthy(a.description) THEN Put(base, "description", a.description) ELSE base
        p2 == IF status_id # None THEN Put(p1, "status", status_id) ELSE p1
        p3 == IF a.tags # None /\ a.tags[2] # <<>> THEN Put(p2, "tags", a.tags) ELSE p2
    IN  IF a.assigned_to # None THEN Put(p3, "assigned_to", a.assigned_to) ELSE p3

\* move the call on when the remote call it awaited is answered; an outcome (next
\* is "done" or "failed") is held while get_taiga_client awaits client.close()
CallGoto(next, payload, res, events, answer) ==
    call' = [call EXCEPT !.pc = IF next \in {"done", "failed"} THEN "close" ELSE next,
                         !.payload = payload,
                         !.leaving = IF next \in {"done", "failed"} THEN res ELSE @,
                         !.trace = @ \o events, !.answers = Append(@, answer)]

\* the call arrives: get_taiga_client awaits client.authenticate()
CallStart(tool, a) ==
    call' = [call EXCEPT !.tool = tool, !.args = a, !.pc = "authenticate",
                         !.trace = <<"authenticate">>]

\* client.close() returns: the outcome reaches the caller
CallCloseResponse ==
    /\ call.pc = "close"
    /\ call' = [call EXCEPT !.pc = IF Returned(call.leaving) THEN "done" ELSE "failed",
                            !.result = call.leaving]
    /\ UNCHANGED <<CreateVars, upd, act>>

\* an error that leaves the handler with the client still open
CallFailUnclosed(res, answer) == CallGoto("failed", call.payload, res, <<>>, answer)

\* a remote call failed: the error leaves the handler, the client is closed
CallFail(res, answer) == CallGoto("failed", call.payload, res, <<"close">>, answer)

\* taiga_stories_create is called
StoriesCreateStart ==
    /\ call.pc = "idle"
    /\ \E a \in StoriesCreateArgs : CallStart("stories_create", a)
    /\ UNCHANGED <<CreateVars, upd, act>>

\* POST /auth answers: the resolver runs up to its await, or authenticate raises
StoriesCreateAuthResponse ==
    /\ call.tool = "stories_create" /\ call.pc = "authenticate"
    /\ \/ LET r == ResolveWithoutListing(call.args.status) IN
          IF Returned(r)
          THEN CallGoto("create", StoriesCreatePayload(call.args, r[2]), NoResult,
                        <<"create_user_story">>, OK)
          ELSE CallGoto("list_statuses", EmptyDict, NoResult,
                        <<"list_user_story_statuses">>, OK)
       \/ \E s \in AuthFailStatuses : CallFail(AuthError(s), s)
    /\ UNCHANGED <<CreateVars, upd, act>>

\* list_user_story_statuses answers; the resolver scans the listing
StoriesCreateListResponse ==
    /\ call.tool = "stories_create" /\ call.pc = "list_statuses"
    /\ \/ \E s \in FailStatuses : CallFail(RemoteError(s), s)
       \/ \E listing \in StoryListings :
            LET res == ResolveInListing(listing, call.args.status, "Status",
                                        call.args.project_id)
            IN call' = [call EXCEPT
                          !.listing = listing,
                          !.pc = IF Raised(res) THEN "close" ELSE "create",
                          !.payload = IF Raised(res) THEN @
                                      ELSE StoriesCreatePayload(call.args, res[2]),
                          !.leaving = IF Raised(res) THEN res ELSE @,
                          !.trace = Append(@, IF Raised(res) THEN "close"
                                              ELSE "create_user_story"),
                          !.answers = Append(@, OK)]
    /\ UNCHANGED <<CreateVars, upd, act>>

\* create_user_story answers; the record is projected for the caller
StoriesCreateResponse ==
    /\ call.tool = "stories_create" /\ call.pc = "create"
    /\ \/ \E s \in FailStatuses : CallFail(RemoteError(s), s)
       \/ CallGoto("done", call.payload,
                   Return(Slice(Put(Put(call.payload, "id", IntV(FirstTaskId)),
                                    "version", IntV(1)),
                                Keep("story"))),
                   <<"close">>, OK)
    /\ UNCHANGED <<CreateVars, upd, act>>

\* the callers of the status resolvers, one call at a time: the update tools and
\* taiga_stories_create
NextStatus ==
    \/ call.pc = "idle" /\ UpdateStart
    \/ UpdateAuthResponse
    \/ UpdateGetCurrentResponse
    \/ UpdateListStatusesResponse
    \/ UpdateSubmitResponse
    \/ UpdateRefetchResponse
    \/ UpdateCloseResponse
    \/ upd.pc = "idle" /\ StoriesCreateStart
    \/ StoriesCreateAuthResponse
    \/ StoriesCreateListResponse
    \/ StoriesCreateResponse
    \/ CallCloseResponse

SpecStatus == Init /\ [][NextStatus]_vars

\* ------------------------------------------------------------------ taiga_users_list

UsersListArgs ==
    [ project_id : {UNSET, None, IntV(3), IntV(0)},
      search : {UNSET, None, StrV(""), StrV("bo"), StrV("BO")} ]

\* statuses a failed list_users / list_project_users is answered with
UsersFailStatuses == {401, 403, 404, 500}

\* answers of GET /users, and of GET /projects/<id>/users: user records, membership
\* records that nest the user, and a record whose "user" is an id
Ann == [id |-> IntV(1), full_name |-> StrV("Ann"), username |-> StrV("ann"),
        email |-> StrV("a@x"), extra |-> IntV(1)]
Bob == [id |-> IntV(2), full_name |-> StrV("Bob"), username |-> StrV("bob")]
UserListings == { <<Ann>>, <<Ann, Bob>> }
ProjectUserListings ==
    { <<[user |-> DictV(Bob), role |-> IntV(3)],
        [id |-> IntV(3), username |-> StrV("cy"), user |-> IntV(7)]>>,
      <<[user |-> DictV(Ann), id |-> IntV(50)]>> }

\* str.lower() and `needle in hay` on the strings of the model
LowerCase ==
    [x \in {"bo", "BO", "Ann", "ann", "a@x", "Bob", "bob", "cy"} |->
        CASE x = "BO" -> "bo" [] x = "Ann" -> "ann" [] x = "Bob" -> "bob" [] OTHER -> x]
Containing == [needle \in {"bo"} |-> {"bob"}]

\* a fallback that is taken after any failure
FallsBackOnAnyFailure(project_filter, status_code) == project_filter # None

\* a fallback that does not ask whether a project was given
FallsBackWithoutProject(project_filter, status_code) == status_code \in {401, 403}

\* app.py 1764: the failure is an authorization error and a project was given
FallsBack(project_filter, status_code) ==
    project_filter # None /\ status_code \in {401, 403}

\* app.py 1769-1775: a membership record is replaced by the user it nests
Normalise(entry) ==
    IF "user" \in DOMAIN entry /\ entry["user"][1] = "dict" THEN entry["user"][2] ELSE entry

UserKeep == <<"id", "full_name", "username", "email">>

\* app.py 1780-1789: the user has a string field that contains the lowered search
MatchesSearch(user, lowered) ==
    \E key \in {"full_name", "username", "email"} :
        LET value == Get(user, key)
        IN  IsStr(value) /\ LowerCase[value[2]] \in Containing[lowered]

\* app.py 1768-1791: what the tool returns for the listing it obtained
UsersListResult(users, search_filter) ==
    LET results == [i \in 1..Len(users) |-> Slice(Normalise(users[i]), UserKeep)]
        kept == IF Truthy(search_filter)
                THEN SelectSeq(results,
                               LAMBDA user : MatchesSearch(user, LowerCase[search_filter[2]]))
                ELSE results
    IN  ListV([i \in 1..Len(kept) |-> DictV(kept[i])])

ProjectFilter(a) == IF a.project_id = UNSET THEN None ELSE a.project_id
SearchFilter(a) == IF a.search = UNSET THEN None ELSE a.search

\* taiga_users_list is called
UsersListStart ==
    /\ call.pc = "idle"
    /\ \E a \in UsersListArgs : CallStart("users_list", a)
    /\ UNCHANGED <<CreateVars, upd, act>>

\* POST /auth answers: list_users is awaited with the search (`search_filter or
\* None`) and the project, or authenticate raises
UsersListAuthResponse ==
    /\ call.tool = "users_list" /\ call.pc = "authenticate"
    /\ \/ CallGoto("list_users",
                   [k \in {"search", "project_id"} |->
                       IF k = "project_id" THEN ProjectFilter(call.args)
                       ELSE IF Truthy(SearchFilter(call.args)) THEN SearchFilter(call.args)
                       ELSE None],
                   NoResult, <<"list_users">>, OK)
       \/ \E s \in AuthFailStatuses : CallFail(AuthError(s), s)
    /\ UNCHANGED <<CreateVars, upd, act>>

\* list_users answers: its listing is returned, or its failure leads to the fallback
\* or leaves the tool
UsersListResponse ==
    /\ call.tool = "users_list" /\ call.pc = "list_users"
    /\ \/ \E s \in UsersFailStatuses :
            IF FallsBack(ProjectFilter(call.args), s)
            THEN CallGoto("list_project_users", call.payload, NoResult,
                          <<"list_project_users">>, s)
            ELSE CallFail(RemoteError(s), s)
       \/ \E users \in UserListings :
            call' = [call EXCEPT
                       !.listing = users,
                       !.pc = "close",
                       !.leaving = Return(UsersListResult(users, SearchFilter(call.args))),
                       !.trace = Append(@, "close"),
                       !.answers = Append(@, OK)]
    /\ UNCHANGED <<CreateVars, upd, act>>

\* list_project_users answers
UsersProjectResponse ==
    /\ call.tool = "users_list" /\ call.pc = "list_project_users"
    /\ \/ \E s \in UsersFailStatuses : CallFail(RemoteError(s), s)
       \/ \E users \in ProjectUserListings :
            call' = [call EXCEPT
                       !.listing = users,
                       !.pc = "close",
                       !.leaving = Return(UsersListResult(users, SearchFilter(call.args))),
                       !.trace = Append(@, "close"),
                       !.answers = Append(@, OK)]
    /\ UNCHANGED <<CreateVars, upd, act>>

NextUsers ==
    \/ UsersListStart
    \/ UsersListAuthResponse
    \/ UsersListResponse
    \/ UsersProjectResponse
    \/ CallCloseResponse

SpecUsers == Init /\ [][NextUsers]_vars

\* ------------------------------------------------------------------ taiga_tasks_list

TasksListArgs ==
    [ project_id : {UNSET, None, IntV(3)},
      user_story_id : {UNSET},
      assigned_to : {UNSET, IntV(90)},
      search : {UNSET, StrV("x")},
      status : {UNSET, None, IntV(21), StrV("Doing"), StrV("doing"), StrV("nope")},
      page : {UNSET},
      page_size : {UNSET, IntV(50)} ]

\* `None if x is UNSET else x`
Filter(v) == IF v = UNSET THEN None ELSE v

\* the keyword arguments of client.list_tasks
ListTasksParams(a, resolved_status) ==
    [k \in {"project_id", "user_story_id", "assigned_to", "search", "status", "page",
            "page_size"} |->
        IF k = "status" THEN resolved_status ELSE Filter(a[k])]

\* answers of GET /tasks: the tasks and the pagination read from the headers
Investigate == [id |-> IntV(7), subject |-> StrV("Investigate"), project |-> IntV(3),
                status |-> IntV(21), version |-> IntV(2), is_closed |-> IntV(0)]
TaskPages == { [tasks |-> <<>>, pagination |-> [total |-> IntV(0)]],
               [tasks |-> <<Investigate>>, pagination |-> [total |-> IntV(1)]] }

TaskListKeep ==
    <<"id", "ref", "subject", "project", "user_story", "status", "description",
      "assigned_to", "tags", "due_date", "created_date", "modified_date", "version">>

\* a status step that sends a name on without asking for a project
TasksListStatusUnchecked(a) ==
    IF a.status = UNSET \/ a.status = None THEN [next |-> "list_tasks", status |-> None]
    ELSE IF IsStr(a.status) /\ Filter(a.project_id) # None
    THEN [next |-> "list_task_statuses", status |-> None]
    ELSE [next |-> "list_tasks", status |-> None]

\* app.py 1704-1717: what the status argument asks for, up to the next await
TasksListStatus(a) ==
    IF a.status = UNSET \/ a.status = None THEN [next |-> "list_tasks", status |-> None]
    ELSE IF IsStr(a.status)
    THEN IF Filter(a.project_id) = None
         THEN [next |-> "failed", status |-> None]
         ELSE [next |-> "list_task_statuses", status |-> None]
    ELSE [next |-> "list_tasks", status |-> a.status]

\* taiga_tasks_list is called
TasksListStart ==
    /\ call.pc = "idle"
    /\ \E a \in TasksListArgs : CallStart("tasks_list", a)
    /\ UNCHANGED <<CreateVars, upd, act>>

\* POST /auth answers: the status argument is looked at, or authenticate raises
TasksListAuthResponse ==
    /\ call.tool = "tasks_list" /\ call.pc = "authenticate"
    /\ \/ LET b == TasksListStatus(call.args) IN
          IF b.next = "failed"
          THEN CallFail(Raise("ValueError", 0,
                              "project_id is required when filtering by status name"), OK)
          ELSE CallGoto(b.next,
                        IF b.next = "list_tasks" THEN ListTasksParams(call.args, b.status)
                        ELSE EmptyDict,
                        NoResult, <<b.next>>, OK)
       \/ \E s \in AuthFailStatuses : CallFail(AuthError(s), s)
    /\ UNCHANGED <<CreateVars, upd, act>>

\* list_task_statuses answers; the name is resolved and list_tasks is awaited
TasksListStatusesResponse ==
    /\ call.tool = "tasks_list" /\ call.pc = "list_task_statuses"
    /\ \/ \E s \in FailStatuses : CallFail(RemoteError(s), s)
       \/ \E listing \in TaskListings :
            LET res == ResolveInListing(listing, call.args.status, "Task status",
                                        IntOf(call.args.project_id))
            IN call' = [call EXCEPT
                          !.listing = listing,
                          !.pc = IF Raised(res) THEN "close" ELSE "list_tasks",
                          !.payload = IF Raised(res) THEN @
                                      ELSE ListTasksParams(call.args, res[2]),
                          !.leaving = IF Raised(res) THEN res ELSE @,
                          !.trace = Append(@, IF Raised(res) THEN "close" ELSE "list_tasks"),
                          !.answers = Append(@, OK)]
    /\ UNCHANGED <<CreateVars, upd, act>>

\* list_tasks answers; the tasks are projected and returned with the pagination
TasksListResponse ==
    /\ call.tool = "tasks_list" /\ call.pc = "list_tasks"
    /\ \/ \E s \in FailStatuses : CallFail(RemoteError(s), s)
       \/ \E page \in TaskPages :
            CallGoto("done", call.payload,
                     Return(DictV([k \in {"tasks", "pagination"} |->
                        IF k = "pagination" THEN DictV(page.pagination)
                        ELSE ListV([i \in 1..Len(page.tasks) |->
                                       DictV(Slice(page.tasks[i], TaskListKeep))])])),
                     <<"close">>, OK)
    /\ UNCHANGED <<CreateVars, upd, act>>

NextTasksList ==
    \/ TasksListStart
    \/ TasksListAuthResponse
    \/ TasksListStatusesResponse
    \/ TasksListResponse
    \/ CallCloseResponse

SpecTasksList == Init /\ [][NextTasksList]_vars

\* ------------------------------------------------------------------ all handlers but taiga_tasks_create

\* one invocation at a time of an update tool, an HTTP update action,
\* taiga_stories_create, taiga_users_list or taiga_tasks_list
NextHandlers ==
    \/ act.pc = "idle" /\ call.pc = "idle" /\ UpdateStart
    \/ UpdateAuthResponse
    \/ UpdateGetCurrentResponse
    \/ UpdateListStatusesResponse
    \/ UpdateSubmitResponse
    \/ UpdateRefetchResponse
    \/ UpdateCloseResponse
    \/ upd.pc = "idle" /\ call.pc = "idle" /\ ActionStart
    \/ ActionBodyRead
    \/ ActionAuthResponse
    \/ ActionGetCurrentResponse
    \/ ActionListStatusesResponse
    \/ ActionSubmitResponse
    \/ ActionCloseResponse
    \/ upd.pc = "idle" /\ act.pc = "idle" /\ StoriesCreateStart
    \/ StoriesCreateAuthResponse
    \/ StoriesCreateListResponse
    \/ StoriesCreateResponse
    \/ upd.pc = "idle" /\ act.pc = "idle" /\ UsersListStart
    \/ UsersListAuthResponse
    \/ UsersListResponse
    \/ UsersProjectResponse
    \/ upd.pc = "idle" /\ act.pc = "idle" /\ TasksListStart
    \/ TasksListAuthResponse
    \/ TasksListStatusesResponse
    \/ TasksListResponse
    \/ CallCloseResponse

SpecHandlers == Init /\ [][NextHandlers]_vars

\* ------------------------------------------------------------------ claims: idempotent create

\* how often a call occurs in a request's trace
Count(tr, name) == Cardinality({i \in 1..Len(tr) : tr[i] = name})

\* every occurrence of `later` in the trace has an `earlier` before it
Precedes(tr, earlier, later) ==
    \A j \in 1..Len(tr) : tr[j] = later => \E i \in 1..(j - 1) : tr[i] = earlier

\* what a call returns or raises, known from the moment it leaves its handler's body
Outcome(r) == IF pc[r] = "close" THEN leaving[r] ELSE result[r]

UpdOutcome == IF upd.pc = "close" THEN upd.leaving ELSE upd.result
CallOutcome == IF call.pc = "close" THEN call.leaving ELSE call.result

\* both calls carry the same idempotency key, user story and subject
SameKeyStorySubject(r1, r2) ==
    /\ HasIdempotencyKey(args[r1]) /\ HasIdempotencyKey(args[r2])
    /\ args[r1].idempotency_key = args[r2].idempotency_key
    /\ args[r1].user_story_id = args[r2].user_story_id
    /\ args[r1].subject = args[r2].subject

\* r2 was called after r1 had returned
InSequence(r1, r2) == r1 \in hist[r2].started_after /\ Returned(result[r1])

\* neither call had ended when the other began
Overlapping(r1, r2) ==
    /\ r1 # r2 /\ pc[r1] # "idle" /\ pc[r2] # "idle"
    /\ r1 \notin hist[r2].started_after /\ r2 \notin hist[r1].started_after

\* the request's store.get has run
HasLookedUp(r) == hist[r].get.time >= 0

\* what was last stored under the request's key had expired when its get ran
LookedUpAfterExpiry(r) ==
    /\ hist[r].get.stored # None
    /\ hist[r].get.time >= hist[r].get.stored[2].time + TtlSeconds

CreateCalls(r1, r2) == Count(trace[r1], "create_task") + Count(trace[r2], "create_task")

\* C1: two calls in sequence with the same idempotency key, user story and subject, the
\* second looking the key up before the TTL of what the first stored has passed: both
\* return equal records (the second's is decided by its lookup), create_task was
\* called once in all, and each call consulted the store before any create_task.
C1_SequentialRetryCreatesOnce ==
    \A r1, r2 \in Requests :
        ( /\ SameKeyStorySubject(r1, r2) /\ InSequence(r1, r2)
          /\ HasLookedUp(r2) /\ ~LookedUpAfterExpiry(r2) )
        => /\ Returned(Outcome(r2)) /\ Outcome(r2) = result[r1]
           /\ CreateCalls(r1, r2) = 1
           /\ Precedes(trace[r1], "store.get", "create_task")
           /\ Precedes(trace[r2], "store.get", "create_task")

C1_Witness ==
    \E r1, r2 \in Requests :
        /\ SameKeyStorySubject(r1, r2) /\ InSequence(r1, r2)
        /\ HasLookedUp(r2) /\ ~LookedUpAfterExpiry(r2)
        /\ hist[r2].get.stored # None /\ hist[r2].get.time > hist[r2].get.stored[2].time
        /\ Count(trace[r1], "create_task") = 1
        /\ Returned(result[r2])

\* C2 (as claimed): two overlapping calls with the same idempotency key, user story and
\* subject, both returning before anything can expire, call create_task once in all
\* and return the same record.
C2_ConcurrentCreatesOnce ==
    \A r1, r2 \in Requests :
        ( /\ SameKeyStorySubject(r1, r2) /\ Overlapping(r1, r2)
          /\ Returned(result[r1]) /\ Returned(result[r2])
          /\ now < TtlSeconds )
        => CreateCalls(r1, r2) = 1 /\ result[r1] = result[r2]

\* the arguments that make up the payload of a create call
PayloadArgs(a) ==
    <<a.user_story_id, a.subject, a.description, a.status, a.tags, a.assigned_to, a.due_date>>

\* C3 (as claimed): a call that reuses the idempotency key of an earlier, completed call
\* with a different payload misses the cache and never returns the record created for
\* the earlier call.
C3_DifferentPayloadMisses ==
    \A r1, r2 \in Requests :
        ( /\ HasIdempotencyKey(args[r1]) /\ HasIdempotencyKey(args[r2])
          /\ args[r1].idempotency_key = args[r2].idempotency_key
          /\ PayloadArgs(args[r1]) # PayloadArgs(args[r2])
          /\ InSequence(r1, r2) /\ Count(trace[r1], "create_task") = 1
          /\ HasLookedUp(r2) )
        => /\ hist[r2].get.cached = None
           /\ result[r2] # Return(local[r1].task)

\* C4: two calls with the same idempotency key and user story but different subjects,
\* both returning: their cache keys differ and create_task was called twice, once by
\* each (the remote API holds these two tasks and what the create_task action added).
C4_DifferentSubjectCreatesTwice ==
    \A r1, r2 \in Requests :
        ( /\ r1 # r2
          /\ HasIdempotencyKey(args[r1]) /\ HasIdempotencyKey(args[r2])
          /\ args[r1].idempotency_key = args[r2].idempotency_key
          /\ args[r1].user_story_id = args[r2].user_story_id
          /\ args[r1].subject # args[r2].subject
          /\ Returned(result[r1]) /\ Returned(result[r2]) )
        => /\ local[r1].cache_key # local[r2].cache_key
           /\ Count(trace[r1], "create_task") = 1 /\ Count(trace[r2], "create_task") = 1
           /\ Len(created_tasks) = 2 + (IF act.record # EmptyDict THEN 1 ELSE 0)

C4_Witness ==
    \E r1, r2 \in Requests :
        /\ InSequence(r1, r2)
        /\ HasIdempotencyKey(args[r1])
        /\ args[r1].idempotency_key = args[r2].idempotency_key
        /\ args[r1].user_story_id = args[r2].user_story_id
        /\ args[r1].subject # args[r2].subject
        /\ Returned(result[r2]) /\ Len(created_tasks) = 2

\* a remote call of request r is in flight
RemoteCallInFlight(r) ==
    pc[r] \in {"authenticate", "get_user_story", "list_task_statuses", "create_task", "close"}

\* C7: the store's lock is held only inside get and store; no request holds it while
\* one of its remote calls is in flight, nor after it has ended.
C7_LockNotHeldAcrossRemoteCalls ==
    \A r \in Requests :
        /\ lock = r => pc[r] \in {"store_get_locked", "store_store_locked"}
        /\ (RemoteCallInFlight(r) \/ Finished(r)) => lock # r

C7_Witness ==
    \E r, q \in Requests :
        /\ pc[r] = "create_task" /\ Count(trace[r], "store.get") = 1
        /\ lock = q /\ pc[q] = "store_store_locked"

\* ------------------------------------------------------------------ the store on its own

\* Callers use _IdempotencyStore directly: any sequence of get and store calls on two
\* keys, overlapping where the lock allows it.
StoreKeys == {"k1", "k2"}
StoreValues == { [id |-> IntV(100)], [id |-> IntV(101)] }

\* a caller awaits get(key)
CallGet(r) ==
    /\ pc[r] = "idle"
    /\ \E key \in StoreKeys :
        local' = [local EXCEPT ![r] = [NoLocal EXCEPT !.cache_key = StrV(key)]]
    /\ pc' = [pc EXCEPT ![r] = "store_get"]
    /\ hist' = [hist EXCEPT ![r].get = NoGet]
    /\ UNCHANGED <<leaving, mem, upd, act, call, now, lock, entries, last_store, created_tasks, args, result, trace>>

\* get runs under the lock and returns to the caller
GetReturn(r) ==
    /\ pc[r] = "store_get_locked"
    /\ \E t \in ClockReadings :
        LET key == local[r].cache_key[2]
            g == StoreGetBody(entries, key, t)
        IN /\ now' = t
           /\ entries' = g[1]
           /\ hist' = [hist EXCEPT ![r].get =
                         [time |-> t, cached |-> g[2],
                          stored |-> IF key \in DOMAIN last_store
                                     THEN DictV(last_store[key]) ELSE None]]
    /\ lock' = LockReleased(r)
    /\ pc' = [pc EXCEPT ![r] = "idle"]
    /\ UNCHANGED <<leaving, mem, upd, act, call, last_store, created_tasks, args, local, result, trace>>

\* a caller awaits store(key, value)
CallStore(r) ==
    /\ pc[r] = "idle"
    /\ \E key \in StoreKeys, value \in StoreValues :
        local' = [local EXCEPT ![r] = [NoLocal EXCEPT !.cache_key = StrV(key), !.task = value]]
    /\ pc' = [pc EXCEPT ![r] = "store_store"]
    /\ hist' = [hist EXCEPT ![r].get = NoGet]
    /\ UNCHANGED <<leaving, mem, upd, act, call, now, lock, entries, last_store, created_tasks, args, result, trace>>

\* store runs under the lock and returns to the caller
StoreReturn(r) ==
    /\ pc[r] = "store_store_locked"
    /\ \E t \in ClockReadings : \E t2 \in {t, t + 1} :
        /\ t2 <= MaxTime
        /\ now' = t2
        /\ entries' = StoreStoreBody(entries, local[r].cache_key[2], local[r].task, t, t2)
        /\ last_store' = Put(last_store, local[r].cache_key[2],
                             [time |-> t2, value |-> local[r].task, purged_at |-> t])
    /\ lock' = LockReleased(r)
    /\ pc' = [pc EXCEPT ![r] = "idle"]
    /\ UNCHANGED <<leaving, mem, upd, act, call, created_tasks, args, local, result, trace, hist>>

NextStore ==
    \/ \E r \in Pair : CallGet(r)
    \/ \E r \in Pair : StoreGetAcquire(r)
    \/ \E r \in Pair : GetReturn(r)
    \/ \E r \in Pair : CallStore(r)
    \/ \E r \in Pair : StoreStoreAcquire(r)
    \/ \E r \in Pair : StoreReturn(r)

SpecStore == Init /\ [][NextStore]_vars

\* ------------------------------------------------------------------ the store and its callers' objects

\* A caller makes records, passes them to store, receives records from get and
\* changes top-level fields of the records it holds.  Dicts are objects here:
\* mem.heap[a] is the content of the dict at address a, the store's entries hold the
\* address of the dict they keep, mem.held are the addresses the caller has, mem.stored
\* is the content of the record last passed to store under a key as it was then, and
\* mem.got is what the get that has just run returned.
MaxObjects == 4
\* the value a caller overwrites a field with
Changed == IntV(999)

\* keeping the very object instead of a copy
DictAlias(heap, a) == [heap |-> heap, addr |-> a]

\* dict(value): a new object with the same top-level fields
DictCopy(heap, a) == [heap |-> Append(heap, heap[a]), addr |-> Len(heap) + 1]

\* the caller builds a record
MemNew ==
    /\ Len(mem.heap) < MaxObjects
    /\ \E value \in StoreValues :
        mem' = [mem EXCEPT !.heap = Append(@, value), !.held = @ \cup {Len(mem.heap) + 1}]
    /\ UNCHANGED <<now, lock, entries, last_store, created_tasks, pc, args, local, result,
                   trace, hist, upd, act, call, leaving>>

\* store(key, value) with a record the caller holds: purge, then keep dict(value)
MemStore ==
    /\ Len(mem.heap) < MaxObjects
    /\ \E key \in StoreKeys, a \in mem.held, t \in ClockReadings : \E t2 \in {t, t + 1} :
        LET c == DictCopy(mem.heap, a) IN
        /\ t2 <= MaxTime
        /\ now' = t2
        /\ entries' = StoreStoreBody(entries, key, c.addr, t, t2)
        /\ mem' = [mem EXCEPT !.heap = c.heap, !.stored = Put(@, key, mem.heap[a]),
                              !.got = None]
    /\ UNCHANGED <<lock, last_store, created_tasks, pc, args, local, result, trace, hist,
                   upd, act, call, leaving>>

\* get(key): purge, then return dict(value) of the entry, or None
MemGet ==
    /\ Len(mem.heap) < MaxObjects
    /\ \E key \in StoreKeys, t \in ClockReadings :
        LET purged == PurgeExpired(entries, t) IN
        /\ now' = t
        /\ entries' = purged
        /\ IF key \in DOMAIN purged
           THEN LET c == DictCopy(mem.heap, purged[key][2]) IN
                mem' = [mem EXCEPT !.heap = c.heap, !.held = @ \cup {c.addr},
                                   !.got = <<"got", key, c.heap[c.addr]>>]
           ELSE mem' = [mem EXCEPT !.got = None]
    /\ UNCHANGED <<lock, last_store, created_tasks, pc, args, local, result, trace, hist,
                   upd, act, call, leaving>>

\* the caller changes a top-level field of a record it holds
MemMutate ==
    /\ \E a \in mem.held :
        /\ mem.heap[a]["id"] # Changed
        /\ mem' = [mem EXCEPT !.heap[a] = Put(@, "id", Changed), !.got = None]
    /\ UNCHANGED <<now, lock, entries, last_store, created_tasks, pc, args, local, result,
                   trace, hist, upd, act, call, leaving>>

NextCopies ==
    \/ MemNew
    \/ MemStore
    \/ MemGet
    \/ MemMutate

SpecCopies == Init /\ [][NextCopies]_vars

\* ------------------------------------------------------------------ claims: the store

\* C5: a completed get returned the value last stored under its key exactly when it ran
\* strictly before that store's time plus the TTL; at or after it, and for a key never
\* stored, it returned None.
C5_EntryLivesForTtl ==
    \A r \in Requests :
        HasLookedUp(r) =>
            LET g == hist[r].get IN
            IF g.stored # None /\ g.time < g.stored[2].time + TtlSeconds
            THEN g.cached = DictV(g.stored[2].value)
            ELSE g.cached = None

\* a get ran exactly when the entry under its key expired, and missed
C5_Witness ==
    \E r \in Requests :
        /\ HasLookedUp(r) /\ hist[r].get.stored # None
        /\ hist[r].get.time = hist[r].get.stored[2].time + TtlSeconds
        /\ hist[r].get.cached = None
        /\ \E q \in Requests :
            /\ HasLookedUp(q) /\ hist[q].get.stored # None
            /\ hist[q].get.time = hist[q].get.stored[2].time + TtlSeconds - 1
            /\ hist[q].get.cached # None

\* C6: what the last completed store(K, v) wrote stays in the entry collection, with
\* its value and expiry, for as long as the clock is before its expiry, whatever gets
\* and stores on other keys run meanwhile.
C6_PurgeKeepsFreshEntries ==
    \A key \in DOMAIN last_store :
        now < last_store[key].time + TtlSeconds =>
            /\ key \in DOMAIN entries
            /\ entries[key] = <<last_store[key].time + TtlSeconds, last_store[key].value>>

\* an entry one second from expiry survived the purge of a get on the other key, while
\* the other caller holds the lock
C6_Witness ==
    \E r, q \in Requests : \E key \in DOMAIN entries :
        /\ now = entries[key][1] - 1
        /\ HasLookedUp(r) /\ hist[r].get.time = now
        /\ local[r].cache_key # StrV(key)
        /\ lock = q /\ q # r

\* ------------------------------------------------------------------ claims: update tools

UpdateEnded == upd.pc \in {"done", "failed"}

\* every field parameter of the update call was left out
AllUnset == \A f \in UpdateFields(upd.tool) : upd.args[f] = UNSET

\* the field parameters the caller gave
GivenFields == {f \in UpdateFields(upd.tool) : upd.args[f] # UNSET}

\* C8 (as claimed): an update call with every field Unset, on an authenticated client,
\* ends with a validation error (ValueError) and submits no update.
C8_AllUnsetFailsValidation ==
    (UpdateEnded /\ AllUnset /\ upd.trace[2] # "close")
        => /\ Raised(UpdOutcome) /\ UpdOutcome[2] = "ValueError"
           /\ upd.submitted = <<>>

\* C9: every payload handed to update_user_story / update_task has exactly the payload
\* names of the parameters that were given, plus "version"; at most one is handed over.
C9_PayloadKeysAreGivenFields ==
    /\ Len(upd.submitted) <= 1
    /\ \A i \in 1..Len(upd.submitted) :
        DOMAIN upd.submitted[i] = {PayloadName(f) : f \in GivenFields} \cup {"version"}

\* a payload was submitted for a call that gave a null, a value under a renamed key,
\* and left other fields out
C9_Witness ==
    /\ upd.pc = "done" /\ Len(upd.submitted) = 1
    /\ upd.args.subject = None
    /\ upd.tool = "stories" /\ upd.args.epic_id # UNSET /\ upd.args.description = UNSET
    /\ upd.args.status = StrV("In Progress")

\* C10 (as claimed): every given field is in the submitted payload with the very value
\* the caller passed, a null as null (a status given by name is resolved instead).
C10_FieldsSentVerbatim ==
    \A i \in 1..Len(upd.submitted) : \A f \in GivenFields :
        (f = "status" /\ IsStr(upd.args[f]))
        \/ upd.submitted[i][PayloadName(f)] = upd.args[f]

\* ------------------------------------------------------------------ claims: version and conflict

\* the caller passed a version (null counts as left out, as the handlers read it)
ExplicitVersion == upd.args.version # UNSET /\ upd.args.version # None

\* C11: a payload submitted by an update tool carries the caller's version when one was
\* passed, and otherwise the version of the record read before the update.
C11_VersionSubmitted ==
    \A i \in 1..Len(upd.submitted) :
        upd.submitted[i]["version"] =
            IF ExplicitVersion THEN upd.args.version ELSE upd.existing["version"]

\* a payload went out with the caller's version 9 while the record read had version 2
C11_Witness ==
    /\ upd.pc = "done" /\ Len(upd.submitted) = 1
    /\ ExplicitVersion /\ upd.existing["version"] = IntV(2)
    /\ upd.submitted[1]["version"] = IntV(9)

\* the submit of the update call was answered with 409
SubmitConflicted ==
    \E i \in 1..Len(upd.answers) : upd.trace[i] = UpdateCall(upd.tool) /\ upd.answers[i] = 409

\* C12 (as claimed): whenever the submit was answered with 409, the call ends with the
\* conflict error naming the version of a read issued after the submit, after one submit.
C12_ConflictAlwaysRewritten ==
    (UpdateEnded /\ SubmitConflicted)
        => /\ upd.latest # None
           /\ UpdOutcome = Raise("ValueError", 0,
                                 ConflictMessage(upd.tool, upd.id, Get(upd.latest[2], "version")))
           /\ Count(upd.trace, UpdateCall(upd.tool)) = 1

\* C12 (amended): whenever the submit was answered with 409, exactly one submit and one
\* read after it were issued; if that read answered, the call ends with the conflict
\* error naming the version it returned, and if it failed, with the read's own error.
C12_ConflictRewritten ==
    (UpdateEnded /\ SubmitConflicted)
        => /\ Count(upd.trace, UpdateCall(upd.tool)) = 1
           /\ Count(upd.trace, GetCall(upd.tool)) = 2
           /\ upd.trace[Len(upd.answers)] = GetCall(upd.tool)
           /\ upd.trace[Len(upd.answers) - 1] = UpdateCall(upd.tool)
           /\ Len(upd.submitted) = 1
           /\ IF upd.latest # None
              THEN UpdOutcome = Raise("ValueError", 0,
                                      ConflictMessage(upd.tool, upd.id,
                                                      Get(upd.latest[2], "version")))
              ELSE /\ Raised(UpdOutcome) /\ UpdOutcome[2] = "TaigaAPIError"
                   /\ UpdOutcome[3] \in FailStatuses

\* task 7 was submitted with the fetched version 2, the submit conflicted and the read
\* after it returned version 3
C12_Witness ==
    /\ UpdateEnded /\ SubmitConflicted /\ upd.tool = "tasks"
    /\ upd.latest # None /\ Get(upd.latest[2], "version") = IntV(3)
    /\ upd.submitted[1]["version"] = IntV(2)
    /\ UpdOutcome[4] = "Conflict updating task 7: latest version is 3"

\* ------------------------------------------------------------------ claims: every update path

\* every update call of the trace that was answered with 409 is followed by a read
RefetchedAfterConflict(tr, answers, update_call, get_call) ==
    \A i \in 1..Len(answers) :
        (tr[i] = update_call /\ answers[i] = 409)
            => i < Len(tr) /\ tr[i + 1] = get_call

\* the submit of the HTTP action was answered with 409
ActionSubmitConflicted ==
    \E i \in 1..Len(act.answers) :
        act.trace[i] = ActionUpdateCall(act.kind) /\ act.answers[i] = 409

\* C13 (as claimed): on every update path, tool or HTTP action, a submit answered with
\* 409 is followed by a re-fetch of the record, and the caller is not handed the plain
\* remote API error of the submit.
C13_ConflictRewrittenOnEveryPath ==
    /\ (UpdateEnded /\ SubmitConflicted)
         => /\ RefetchedAfterConflict(upd.trace, upd.answers, UpdateCall(upd.tool),
                                      GetCall(upd.tool))
            /\ UpdOutcome # RemoteError(409)
    /\ (act.pc = "done" /\ ActionSubmitConflicted)
         => /\ RefetchedAfterConflict(act.trace, act.answers, ActionUpdateCall(act.kind),
                                      ActionGetCall(act.kind))
            /\ act.response # ErrorResponse(RemoteError(409)[4], 400)

\* C14: on every update path, each payload handed to a remote update call has an integer
\* "version" and at least one other field, at most one payload is handed over per call,
\* and a call that can determine no version (none passed, none on the record read) fails
\* without submitting.
C14_SubmittedWithVersionAndField ==
    /\ \A sent \in {upd.submitted, act.submitted} :
        /\ Len(sent) <= 1
        /\ \A i \in 1..Len(sent) :
            /\ "version" \in DOMAIN sent[i] /\ IsInt(sent[i]["version"])
            /\ DOMAIN sent[i] # {"version"}
    /\ (UpdateEnded /\ DOMAIN upd.existing # {} /\ ~ExplicitVersion
          /\ upd.existing["version"] = None)
         => upd.submitted = <<>> /\ Raised(UpdOutcome)
    /\ (act.pc = "done" /\ DOMAIN act.existing # {} /\ act.existing["version"] = None)
         => act.submitted = <<>> /\ act.response[2] # OK

\* update_story with nothing but a status name went out as the resolved status and the
\* version read
C14_Witness ==
    /\ act.pc = "done" /\ act.kind = "story" /\ act.response[2] = OK
    /\ DOMAIN act.body[2] = {"story_id", "status"} /\ IsStr(act.status)
    /\ Len(act.submitted) = 1
    /\ DOMAIN act.submitted[1] = {"status", "version"}
    /\ act.submitted[1]["version"] = IntV(2)

\* ------------------------------------------------------------------ claims: status resolution

\* C15: a caller that hands the resolver an integer or a null status (the update tools,
\* taiga_stories_create) never calls the status listing, and the status it goes on
\* with is the very value it passed (a null stays null).
C15_IntAndNullNeedNoListing ==
    /\ (upd.pc # "idle" /\ upd.args.status # UNSET /\ ~IsStr(upd.args.status))
         => /\ Count(upd.trace, StatusesCall(upd.tool)) = 0
            /\ \A i \in 1..Len(upd.submitted) :
                 upd.submitted[i]["status"] = upd.args.status
    /\ (call.tool = "stories_create" /\ ~IsStr(call.args.status))
         => /\ Count(call.trace, "list_user_story_statuses") = 0
            /\ call.pc \in {"create", "done"}
                 => Get(call.payload, "status") = call.args.status

\* a story was created with the integer status 11 after authenticate and nothing else
C15_Witness ==
    /\ call.tool = "stories_create" /\ call.pc = "done"
    /\ call.args.status = IntV(11) /\ call.payload["status"] = IntV(11)
    /\ call.trace = <<"authenticate", "create_user_story", "close">>

\* the entries of a listing whose name or slug is the status, and the least of a set
Matches(listing, status) ==
    {i \in 1..Len(listing) : listing[i].name = status \/ listing[i].slug = status}
Least(S) == CHOOSE i \in S : \A j \in S : i <= j

\* the error of a resolution that finds no entry
NotFound(label, status, project_id) ==
    Raise("TaigaAPIError", 0,
          label \o " '" \o status[2] \o "' not found for project " \o ToString(project_id))

\* C16: a caller that hands the resolver a status name fetches the listing once, before
\* any submit; when the listing has answered, the status it goes on with is the id of
\* the first entry in listing order whose name or slug equals the name, and if there is
\* none the call fails with the not-found error naming status and project and has
\* submitted nothing.
C16_NameResolvedToFirstMatch ==
    /\ (upd.pc # "idle" /\ IsStr(upd.args.status))
         => /\ Precedes(upd.trace, StatusesCall(upd.tool), UpdateCall(upd.tool))
            /\ Count(upd.trace, StatusesCall(upd.tool)) <= 1
            /\ upd.listing # <<>> =>
                 LET m == Matches(upd.listing, upd.args.status) IN
                 IF m = {}
                 THEN /\ UpdOutcome = NotFound(StatusLabel(upd.tool), upd.args.status,
                                               upd.existing["project"][2])
                      /\ upd.submitted = <<>>
                      /\ Count(upd.trace, UpdateCall(upd.tool)) = 0
                 ELSE /\ upd.payload["status"] = upd.listing[Least(m)].id
                      /\ \A i \in 1..Len(upd.submitted) :
                           upd.submitted[i]["status"] = upd.listing[Least(m)].id
    /\ (call.tool = "stories_create" /\ IsStr(call.args.status))
         => /\ Precedes(call.trace, "list_user_story_statuses", "create_user_story")
            /\ Count(call.trace, "list_user_story_statuses") <= 1
            /\ call.listing # <<>> =>
                 LET m == Matches(call.listing, call.args.status) IN
                 IF m = {}
                 THEN /\ CallOutcome = NotFound("Status", call.args.status,
                                                call.args.project_id)
                      /\ Count(call.trace, "create_user_story") = 0
                 ELSE call.payload["status"] = call.listing[Least(m)].id

\* "In Progress" was resolved against a listing with two entries of that name, and the
\* story went out with the id of the first of them
C16_Witness ==
    /\ upd.pc = "done" /\ upd.tool = "stories" /\ upd.args.status = StrV("In Progress")
    /\ Cardinality(Matches(upd.listing, upd.args.status)) = 2
    /\ Len(upd.submitted) = 1 /\ upd.submitted[1]["status"] = IntV(11)

\* ------------------------------------------------------------------ claims: HTTP actions

\* the allow-list as a set, and the record an action answered with
KeySet(keys) == {keys[i] : i \in 1..Len(keys)}
Answered == act.pc = "done" /\ act.response[2] = OK
AnsweredRecord == act.response[3][2][act.kind][2]

\* C17: the record an action answers with has exactly the keys of its allow-list that
\* the record returned by the remote update has, each with that record's value; an
\* allow-listed key the record lacks is absent, not null.
C17_SliceKeepsPresentAllowedKeys ==
    Answered =>
        /\ DOMAIN AnsweredRecord = KeySet(Keep(act.kind)) \cap DOMAIN act.record
        /\ \A key \in DOMAIN AnsweredRecord : AnsweredRecord[key] = act.record[key]

\* a task was answered without the allow-listed "ref" its record lacks, without the
\* record's "version" that is not allow-listed, and with the record's null "subject"
C17_Witness ==
    /\ Answered /\ act.kind = "task"
    /\ "ref" \notin DOMAIN act.record /\ "ref" \notin DOMAIN AnsweredRecord
    /\ "version" \in DOMAIN act.record /\ "version" \notin DOMAIN AnsweredRecord
    /\ "subject" \in DOMAIN AnsweredRecord

\* the key check turned the request away
KeyRejected ==
    /\ act.pc # "idle"
    /\ ~Truthy(act.expected) \/ ~Truthy(act.provided) \/ act.provided # act.expected

\* C18: a request whose key check fails (no key configured, header missing, header
\* different from the key) is answered at once with 503, 401 and 401 respectively;
\* no client call is made, authentication included, and the body is not read.
C18_KeyCheckedFirst ==
    KeyRejected =>
        /\ act.pc = "done"
        /\ act.response =
             IF ~Truthy(act.expected)
             THEN ErrorResponse("Proxy API key is not configured", 503)
             ELSE IF ~Truthy(act.provided)
             THEN ErrorResponse("Missing X-Api-Key header", 401)
             ELSE ErrorResponse("Invalid API key", 401)
        /\ act.trace = <<>> /\ act.submitted = <<>>
        /\ ~act.body_read

\* a request with a wrong key and an otherwise valid body was answered 401
C18_Witness ==
    /\ KeyRejected /\ act.expected = StrV("s3cret") /\ act.provided = StrV("wrong")
    /\ act.response[2] = 401 /\ act.trace = <<>>
    /\ act.kind = "task" /\ act.body # InvalidJson /\ act.body[1] = "dict"
    /\ Get(act.body[2], "task_id") = IntV(7)

\* ------------------------------------------------------------------ claims: validation order

\* the caller's input to an update tool is invalid whatever the remote holds: no
\* field to update, or a due_date that is no calendar date
InvalidUpdateInput ==
    /\ upd.pc # "idle"
    /\ \/ ~HasUpdates(upd.tool, upd.args)
       \/ /\ upd.tool = "tasks" /\ upd.args.due_date # UNSET
          /\ Raised(ValidateDueDate(upd.args.due_date))

\* C19: a handler given invalid input fails without having issued any remote call
\* (opening and closing the client aside): here, an update tool called with every
\* field Unset or with a malformed due_date never reads the record.
C19_ValidationBeforeAnyCall ==
    InvalidUpdateInput =>
        \A i \in 1..Len(upd.trace) : upd.trace[i] \in {"authenticate", "close"}

\* ------------------------------------------------------------------ claims: user listing

\* list_users was answered, and with which status
UsersAnswered == call.tool = "users_list" /\ Len(call.answers) >= 2
ProjectGiven == call.args.project_id # UNSET /\ call.args.project_id # None

\* C20: once list_users is answered, list_project_users is called exactly when the
\* answer was 401 or 403 and a project_id was given; any other failure leaves the tool
\* as it came, with no further call; and a listing obtained from the fallback is
\* returned with each membership record replaced by the user record it nests.
C20_FallbackOnlyOnAuthorizationError ==
    UsersAnswered =>
        /\ Count(call.trace, "list_project_users") =
             IF call.answers[2] \in {401, 403} /\ ProjectGiven THEN 1 ELSE 0
        /\ (call.answers[2] # OK /\ ~(call.answers[2] \in {401, 403} /\ ProjectGiven))
             => /\ CallOutcome = RemoteError(call.answers[2])
                /\ call.trace = <<"authenticate", "list_users", "close">>
        /\ (call.pc = "done" /\ ~Truthy(call.args.search))
             => /\ Len(CallOutcome[2][2]) = Len(call.listing)
                /\ \A i \in 1..Len(call.listing) :
                     LET entry == call.listing[i]
                         user == IF "user" \in DOMAIN entry /\ entry["user"][1] = "dict"
                                 THEN entry["user"][2] ELSE entry
                     IN  CallOutcome[2][2][i] =
                            DictV([key \in {"id", "full_name", "username", "email"}
                                             \cap DOMAIN user |-> user[key]])

\* list_users was refused with 403 for project 0, the members were listed instead, and
\* the nested user came back as the first result
C20_Witness ==
    /\ UsersAnswered /\ call.pc = "done" /\ call.answers[2] = 403
    /\ call.args.project_id = IntV(0)
    /\ call.trace = <<"authenticate", "list_users", "list_project_users", "close">>
    /\ Len(call.listing) = 2 /\ "user" \in DOMAIN call.listing[1]
    /\ CallOutcome[2][2][1] = DictV([id |-> IntV(2), full_name |-> StrV("Bob"),
                                     username |-> StrV("bob")])

\* ------------------------------------------------------------------ claims: search filtering

\* C21: the user listing filters by the search text on the client, after fetching:
\* every user it returns for a search has a field containing the text, and the
\* parameters handed to the remote list_users carry no search text.
C21_SearchNeverSentToRemote ==
    (call.tool = "users_list" /\ Count(call.trace, "list_users") = 1) =>
        /\ call.payload["search"] = None
        /\ (call.pc = "done" /\ Truthy(call.args.search)) =>
             \A i \in 1..Len(CallOutcome[2][2]) :
                 MatchesSearch(CallOutcome[2][2][i][2], LowerCase[call.args.search[2]])

\* ------------------------------------------------------------------ claims: failed create

\* the request stored the record the remote create gave it
StoredItsTask(r, key) ==
    /\ Returned(Outcome(r)) /\ local[r].cache_key = StrV(key)
    /\ Count(trace[r], "create_task") = 1 /\ Count(trace[r], "store.store") = 1
    /\ local[r].task # EmptyDict

\* r2 was called after r1 had failed
RetryAfterFailure(r1, r2) ==
    /\ r1 \in hist[r2].started_after /\ pc[r1] = "failed"
    /\ SameKeyStorySubject(r1, r2)

\* the call failed because a remote call of its own was answered with an error status
FailedRemotely(r) ==
    /\ Raised(Outcome(r)) /\ Outcome(r)[2] = "TaigaAPIError"
    /\ Outcome(r)[3] \in CreateFailStatuses \cup AuthFailStatuses

\* no call has begun since r did (calls begin in the order 1, 2, 3)
LastStarted(r) == \A q \in Requests : q > r => pc[q] = "idle"

\* between `before` and `after` nothing was added and nothing altered; what is gone
\* had expired when the lookup of r ran
OnlyPurged(before, after, r) ==
    /\ DOMAIN after \subseteq DOMAIN before
    /\ \A k \in DOMAIN after : after[k] = before[k]
    /\ \A k \in (DOMAIN before) \ (DOMAIN after) :
         HasLookedUp(r) /\ before[k][1] <= hist[r].get.time

\* C22 (as claimed), for calls that come one after the other and for the failures of
\* remote calls (authenticate, get_user_story, list_task_statuses, create_task): a call
\* that failed has left the store as it found it, and a later retry with the same
\* key, story and subject that returned a record has invoked the remote create.
C22_FailureLeavesStoreUnchanged ==
    \A r1 \in Requests :
        FailedRemotely(r1)
        => /\ LastStarted(r1) => entries = hist[r1].before
           /\ \A r2 \in Requests :
                (RetryAfterFailure(r1, r2) /\ pc[r2] = "done")
                => Count(trace[r2], "create_task") = 1

\* C22: for calls that come one after the other, every entry of the store holds the
\* record of a call whose remote create succeeded and that stored it; a call that
\* fails, wherever it fails, has not called store and leaves the store with no entry
\* added or altered, the only entries gone being those that had expired when its
\* lookup ran; a retry after a failed call with the same key, story and subject gets
\* from its lookup only the record another call created and stored, which it returns
\* without creating, and on a miss returns only after invoking the remote create
\* itself; and the retry that follows directly a call that failed after its own
\* lookup misses.
C22_EntryOnlyFromSuccessfulCreate ==
    /\ \A key \in DOMAIN entries :
         \E r \in Requests : StoredItsTask(r, key) /\ entries[key][2] = local[r].task
    /\ \A r \in Requests :
         Raised(Outcome(r))
         => /\ Count(trace[r], "store.store") = 0
            /\ LastStarted(r) => OnlyPurged(hist[r].before, entries, r)
    /\ \A r1, r2 \in Requests :
         (RetryAfterFailure(r1, r2) /\ HasLookedUp(r2))
         => /\ hist[r2].get.cached # None
                 => /\ \E r3 \in hist[r2].started_after \ {r1} :
                         /\ StoredItsTask(r3, local[r2].cache_key[2])
                         /\ hist[r2].get.cached = DictV(local[r3].task)
                    /\ Count(trace[r2], "create_task") = 0
                    /\ Outcome(r2) = Return(hist[r2].get.cached[2])
            /\ (hist[r2].get.cached = None /\ pc[r2] = "done")
                 => Count(trace[r2], "create_task") = 1
            /\ (r2 = r1 + 1 /\ HasLookedUp(r1)) => hist[r2].get.cached = None

\* the first call created and stored its task; the second found the entry expired,
\* purged it and failed at the remote create; the retry found the store empty,
\* created the task and stored it
C22_Witness ==
    /\ Returned(result[1]) /\ Count(trace[1], "store.store") = 1
    /\ pc[2] = "failed" /\ FailedRemotely(2) /\ Count(trace[2], "create_task") = 1
    /\ HasLookedUp(2) /\ hist[2].before # EmptyDict
    /\ RetryAfterFailure(2, 3) /\ HasLookedUp(3) /\ hist[3].before = EmptyDict
    /\ pc[3] = "done" /\ Count(trace[3], "create_task") = 1
    /\ local[3].cache_key[2] \in DOMAIN entries

\* ------------------------------------------------------------------ claims: no retry

\* the remote operations that change something
MutatingCalls ==
    {"update_user_story", "update_task", "update_epic", "update_issue", "create_user_story"}

\* no mutating call occurs twice, and no call that failed is issued again
AttemptedOnce(tr, answers) ==
    /\ \A name \in MutatingCalls : Count(tr, name) <= 1
    /\ \A i \in 1..Len(answers) :
         answers[i] # OK => \A j \in (i + 1)..Len(tr) : tr[j] # tr[i]

\* the call answered at position i was the last: only the close of the client follows
EndsAt(tr, i) == Len(tr) = i + 1 /\ tr[i + 1] = "close"

\* the invocation of the tool in `call` has ended, and how
CallEnded == call.pc \in {"done", "failed"}

\* C23 (as claimed): an invocation in which some remote call failed ends with an
\* error to the caller.
C23_AnyFailureEndsInError ==
    /\ UpdateEnded =>
         ((\E i \in 1..Len(upd.answers) : upd.answers[i] # OK) => Raised(UpdOutcome))
    /\ act.pc = "done" =>
         ((\E i \in 1..Len(act.answers) : act.answers[i] # OK) => act.response[2] # OK)
    /\ CallEnded =>
         ((\E i \in 1..Len(call.answers) : call.answers[i] # OK) => Raised(CallOutcome))

\* C23: no mutating remote call is made twice in an invocation and no failed call is
\* issued again.  A failed remote call is the last of its invocation, which ends with
\* an error, in all but two cases: an update tool whose submit is answered 409 reads
\* the record once more and then ends with an error; taiga_users_list whose
\* list_users is answered 401 or 403 for a given project calls list_project_users
\* once, and a failure of that call ends the invocation with an error.
C23_NoRetry ==
    /\ AttemptedOnce(upd.trace, upd.answers)
    /\ AttemptedOnce(act.trace, act.answers)
    /\ AttemptedOnce(call.trace, call.answers)
    /\ \A i \in 1..Len(upd.answers) :
         upd.answers[i] # OK =>
            IF upd.trace[i] = UpdateCall(upd.tool) /\ upd.answers[i] = 409
            THEN /\ upd.trace[i + 1] = GetCall(upd.tool)
                 /\ Len(upd.answers) = i \/ (EndsAt(upd.trace, i + 1) /\ Raised(UpdOutcome))
            ELSE EndsAt(upd.trace, i) /\ Raised(UpdOutcome) /\ UpdOutcome[3] = upd.answers[i]
    /\ \A i \in 1..Len(act.answers) :
         act.answers[i] # OK =>
            /\ EndsAt(act.trace, i) /\ act.pc \in {"close", "done"}
            /\ act.pc = "done" => act.response[2] \in {400, 500}
    /\ \A i \in 1..Len(call.answers) :
         call.answers[i] # OK =>
            IF /\ call.tool = "users_list" /\ call.trace[i] = "list_users"
               /\ call.answers[i] \in {401, 403} /\ ProjectGiven
            THEN /\ call.trace[i + 1] = "list_project_users"
                 /\ Len(call.trace) <= i + 2
            ELSE EndsAt(call.trace, i) /\ Raised(CallOutcome)
                 /\ CallOutcome[3] = call.answers[i]

\* list_users was refused, the members were listed instead and the call returned
C23_Witness ==
    /\ call.tool = "users_list" /\ call.pc = "done" /\ call.answers = <<OK, 401, OK>>
    /\ Returned(CallOutcome)

\* ------------------------------------------------------------------ claims: HTTP error answers

\* C24: an action in which a remote call was answered with an error status, whatever
\* the status, answers 400 with the body {"error": message of the remote error}; an
\* action in which a call failed with anything else answers 500 with the body
\* {"error": "Internal server error"}; no other answer has status 500.
C24_RemoteError400Unexpected500 ==
    /\ \A i \in 1..Len(act.answers) :
         act.answers[i] # OK =>
            /\ act.pc \in {"close", "done"}
            /\ act.pc = "done" =>
                 act.response =
                   IF act.answers[i] = 0
                   THEN <<"response", 500, DictV([error |-> StrV("Internal server error")])>>
                   ELSE IF act.trace[i] = "authenticate"
                   THEN <<"response", 400,
                          DictV([error |-> StrV("Taiga authentication failed with status "
                                                \o ToString(act.answers[i]) \o ": ")])>>
                   ELSE <<"response", 400,
                          DictV([error |-> StrV("Taiga API request failed with status "
                                                \o ToString(act.answers[i]) \o ": ")])>>
    /\ (act.pc = "done" /\ act.response[2] = 500)
         => \E i \in 1..Len(act.answers) : act.answers[i] = 0

\* the update of an issue was answered 409 upstream and 400 by the action
C24_Witness ==
    /\ act.pc = "done" /\ act.kind = "issue" /\ act.answers = <<OK, OK, 409>>
    /\ act.response[2] = 400
    /\ act.response[3][2]["error"] = StrV("Taiga API request failed with status 409: ")

\* ------------------------------------------------------------------ claims: task listing by status

StatusByName == call.tool = "tasks_list" /\ IsStr(call.args.status)

\* C25: taiga_tasks_list with a status name and no project_id fails with the
\* validation error and calls neither listing; with a project_id, the task listing is
\* called only after the status listing, with the id of the first status entry whose
\* name or slug is the name as its status filter.
C25_StatusNameNeedsProject ==
    /\ (StatusByName /\ ~ProjectGiven /\ call.answers # <<>> /\ call.answers[1] = OK)
         => /\ CallOutcome = Raise("ValueError", 0,
                                   "project_id is required when filtering by status name")
            /\ call.trace = <<"authenticate", "close">>
    /\ (StatusByName /\ ProjectGiven)
         => /\ Precedes(call.trace, "list_task_statuses", "list_tasks")
            /\ Count(call.trace, "list_tasks") = 1
                 => call.payload["status"] =
                        call.listing[Least(Matches(call.listing, call.args.status))].id

\* "doing" was resolved against a listing where it is the slug of entry 21 and the
\* name of the entry before it, and the tasks were listed with status 22
C25_Witness ==
    /\ StatusByName /\ ProjectGiven /\ call.pc = "done"
    /\ call.args.status = StrV("doing") /\ Len(call.listing) = 3
    /\ call.payload["status"] = IntV(22) /\ call.payload["project_id"] = IntV(3)
    /\ Len(CallOutcome[2][2]["tasks"][2]) = 1

\* ------------------------------------------------------------------ claims: purge

\* request r completes its get / its store in this step
GetCompletes(r) == pc[r] = "store_get_locked" /\ pc'[r] # pc[r]
StoreCompletes(r) == pc[r] = "store_store_locked" /\ pc'[r] # pc[r]

\* no entry is left that had expired at time t
NoneExpiredAt(e, t) == \A key \in DOMAIN e : e[key][1] > t

\* C26: when a get or a store completes, the store holds no entry, under any key,
\* whose expires_at is at or before the clock reading with which that operation
\* purged; and the entry collection changes in no step other than the completion of
\* a get or a store.
C26_PurgedOnEveryGetAndStore ==
    [][ /\ \A r \in Requests :
             /\ GetCompletes(r) => NoneExpiredAt(entries', now')
             /\ StoreCompletes(r) =>
                  NoneExpiredAt(entries', last_store'[local[r].cache_key[2]].purged_at)
        /\ entries' # entries => \E r \in Requests : GetCompletes(r) \/ StoreCompletes(r)
      ]_vars

\* a store under k2 has completed whose purge dropped the expired entry of k1
C26_Witness ==
    /\ DOMAIN last_store = {"k1", "k2"} /\ DOMAIN entries = {"k2"}
    /\ last_store["k2"].purged_at >= last_store["k1"].time + TtlSeconds
    /\ entries["k2"][1] = last_store["k2"].time + TtlSeconds

\* ------------------------------------------------------------------ claims: copies

\* C27: whatever the caller does to the records it passed to store or received from
\* get, the record the store keeps under a key has the content it had when it was
\* stored, and that is what a get of the key returns.
C27_StoreKeepsAndReturnsCopies ==
    /\ \A key \in DOMAIN entries : mem.heap[entries[key][2]] = mem.stored[key]
    /\ mem.got # None => mem.got[3] = mem.stored[mem.got[2]]

\* the caller has changed both the record it stored and one a get returned, and a
\* further get of the key returned the record as stored
C27_Witness ==
    /\ mem.got # None /\ mem.got[3]["id"] = IntV(100)
    /\ Cardinality({a \in mem.held : mem.heap[a]["id"] = Changed}) >= 2
    /\ Len(mem.heap) = 4

\* ------------------------------------------------------------------ claims: update errors pass through

\* the call at position i was the pre-update read, or the submit answered other than 409
PassesThrough(i) ==
    /\ upd.answers[i] # OK
    /\ \/ upd.trace[i] = GetCall(upd.tool) /\ Count(SubSeq(upd.trace, 1, i - 1), GetCall(upd.tool)) = 0
       \/ upd.trace[i] = UpdateCall(upd.tool) /\ upd.answers[i] # 409

\* C28: in the update tools a failed pre-update read, and a submit that fails with a
\* status other than 409, reach the caller as the remote error with its status; the
\* failed call is the last one made: no read follows and no further submit.
C28_OtherFailuresPropagate ==
    \A i \in 1..Len(upd.answers) :
        PassesThrough(i) =>
            /\ upd.pc \in {"close", "failed"}
            /\ UpdOutcome = RemoteError(upd.answers[i])
            /\ EndsAt(upd.trace, i)
            /\ Count(upd.trace, GetCall(upd.tool)) = 1
            /\ Count(upd.trace, UpdateCall(upd.tool)) <= 1

\* update_task was answered 404, and the caller got the error with status 404
C28_Witness ==
    /\ upd.tool = "tasks" /\ upd.answers = <<OK, OK, 404>>
    /\ upd.trace = <<"authenticate", "get_task", "update_task", "close">>
    /\ UpdOutcome[3] = 404

\* ------------------------------------------------------------------ claims: create without a key

\* the call was given no idempotency key: left out, null or empty
NoKey(r) == pc[r] # "idle" /\ args[r].idempotency_key \in {UNSET, None, StrV("")}

\* the calls a request has made on the store
StoreCalls(r) == Count(trace[r], "store.get") + Count(trace[r], "store.store")

\* C29: a taiga_tasks_create call without idempotency key calls neither get nor store
\* on the idempotency store, no step of it changes the entries, and when it returns
\* it has invoked the remote create itself.
C29_NoKeyBypassesStore ==
    [][ \A r \in Requests :
          /\ (pc'[r] # "idle" /\ args'[r].idempotency_key \in {UNSET, None, StrV("")})
               => /\ Count(trace'[r], "store.get") + Count(trace'[r], "store.store") = 0
                  /\ pc'[r] # pc[r] => entries' = entries
                  /\ pc'[r] = "done" => Count(trace'[r], "create_task") = 1
      ]_vars

\* two calls in sequence for the same story and subject, one with a null and one with
\* an empty key, each created a task and the store stayed empty
C29_Witness ==
    /\ NoKey(1) /\ NoKey(2) /\ InSequence(1, 2) /\ pc[2] = "done"
    /\ args[1].idempotency_key = None /\ args[2].idempotency_key = StrV("")
    /\ args[1].user_story_id = args[2].user_story_id /\ args[1].subject = args[2].subject
    /\ StoreCalls(1) + StoreCalls(2) = 0
    /\ Len(created_tasks) = 2 /\ entries = EmptyDict

\* ------------------------------------------------------------------ claims: client lifetime

\* the calls made on a client from its acquisition on: authenticate comes first and
\* once, close comes once the handler's body has been left, last, and not before
ClientLifetime(tr, ended) ==
    tr # <<>> =>
        /\ tr[1] = "authenticate" /\ Count(tr, "authenticate") = 1
        /\ Count(tr, "close") = IF ended THEN 1 ELSE 0
        /\ ended => tr[Len(tr)] = "close"

\* C30: in every handler the client is authenticated before the first remote call and
\* closed exactly once when the handler ends, however it ends (a return, a failed
\* validation, a remote error, a failed authentication); after the close no call
\* is made on it.
C30_AuthenticatedFirstClosedOnce ==
    /\ ClientLifetime(upd.trace, upd.pc = "close" \/ UpdateEnded)
    /\ ClientLifetime(act.trace, act.pc \in {"close", "done"})
    /\ ClientLifetime(call.trace, call.pc = "close" \/ CallEnded)
    /\ UpdateEnded => upd.trace # <<>>
    /\ CallEnded => call.trace # <<>>
    /\ (act.pc = "done" /\ act.trace = <<>>) => act.response[2] \in {400, 401, 503}

\* taiga_tasks_list failed its validation inside the client block, and the client
\* was closed
C30_Witness ==
    /\ call.tool = "tasks_list" /\ call.pc = "failed" /\ CallOutcome[2] = "ValueError"
    /\ call.trace = <<"authenticate", "close">>

====
